---- MODULE Spec2Model ----
(***************************************************************************)
(* A model of the route-matching and handler-dispatch core of the router   *)
(* package: path-pattern compilation and matching, registration of routes  *)
(* and mounted handlers, ServeHTTP, and the RequestContext chain executor  *)
(* (Next / Error).                                                         *)
(*                                                                         *)
(* Strings are sequences of one-character strings, so "/a" is <<"/","a">>. *)
(***************************************************************************)
EXTENDS Integers, Sequences, FiniteSets, TLC

VARIABLES
  routes,               \* Router.routes: method -> sequence of requestHandler
  middleware,           \* Router.middleware: sequence of middlewareRequestHandler
  history,              \* the registration calls made on the Router, in order
  NotFoundHandler,      \* Router.NotFoundHandler (Nil when not set)
  ErrorHandler,         \* Router.ErrorHandler
  contexts,             \* the RequestContext objects allocated by ServeHTTP
  requestContextStore,  \* the package-level map: request -> RequestContext
  req,                  \* the request being served (NoReq when idle)
  stack,                \* the call stack of the serving goroutine, top last
  log,                  \* what has run for the current request, in order
  panicked,             \* a run-time panic unwound the serving goroutine
  tmpl,                 \* matching harness: the template under test
  cand,                 \* matching harness: the candidate path
  res,                  \* matching harness: the result of matches(cand)
  goroutines            \* concurrent serving: where each serving goroutine is

vars == << routes, middleware, history, NotFoundHandler, ErrorHandler, contexts, requestContextStore, req, stack, log,
           panicked, tmpl, cand, res, goroutines >>

routerVars == << routes, middleware, history, NotFoundHandler, ErrorHandler >>
serveVars == << contexts, requestContextStore, req, stack, log, panicked >>
matchVars == << tmpl, cand, res >>

-----------------------------------------------------------------------------
(* Bounds of the model.                                                    *)

MaxRoutes == 2      \* route entries registered on one Router
MaxMounts == 2      \* mount entries registered on one Router
MaxLen == 3         \* length of the strings of the matching harness
MaxCalls == 3       \* calls made on the store of one RequestContext

-----------------------------------------------------------------------------
(* Strings (package strings).                                              *)

Alphabet == {"/", ":", "a", "."}

RECURSIVE StringsUpTo(_)
StringsUpTo(n) ==
  IF n = 0 THEN {<< >>}
  ELSE LET shorter == StringsUpTo(n - 1)
       IN  shorter \cup {Append(s, c) : s \in {t \in shorter : Len(t) = n - 1}, c \in Alphabet}

\* strings.HasPrefix(s, prefix)
HasPrefix(s, prefix) ==
  /\ Len(prefix) <= Len(s)
  /\ SubSeq(s, 1, Len(prefix)) = prefix

\* strings.Split(s, "/"): the segments between the slashes; never empty.
RECURSIVE Split(_)
Split(s) ==
  IF \A i \in 1..Len(s) : s[i] # "/" THEN << s >>
  ELSE LET i == CHOOSE k \in 1..Len(s) : s[k] = "/" /\ \A j \in 1..(k - 1) : s[j] # "/"
       IN  << SubSeq(s, 1, i - 1) >> \o Split(SubSeq(s, i + 1, Len(s)))

\* strings.Join(items, sep)
RECURSIVE Join(_, _)
Join(items, sep) ==
  IF Len(items) = 0 THEN << >>
  ELSE IF Len(items) = 1 THEN items[1]
  ELSE items[1] \o sep \o Join(Tail(items), sep)

\* strings.Trim(s, ":"): all leading and all trailing ":" removed.
RECURSIVE TrimLeft(_)
TrimLeft(s) == IF Len(s) > 0 /\ s[1] = ":" THEN TrimLeft(Tail(s)) ELSE s

RECURSIVE TrimRight(_)
TrimRight(s) ==
  IF Len(s) > 0 /\ s[Len(s)] = ":" THEN TrimRight(SubSeq(s, 1, Len(s) - 1)) ELSE s

Trim(s) == TrimRight(TrimLeft(s))

-----------------------------------------------------------------------------
(* Regular expressions (package regexp), for the syntax the router builds: *)
(* "^", "$", "\" followed by a character, ".", the group ([^\/]+) and      *)
(* ordinary characters.                                                    *)

BEL == "BEL"        \* the character \a stands for; no path of the model holds it

GroupText == << "(", "[", "^", "\\", "/", "]", "+", ")" >>

Lit(c) == [t |-> "lit", c |-> c]
AnyChar == [t |-> "any", c |-> ""]
Group == [t |-> "group", c |-> ""]
Bol == [t |-> "bol", c |-> ""]
Eol == [t |-> "eol", c |-> ""]

InvalidRegexp == [ok |-> FALSE, atoms |-> << >>]

\* What an escaped character stands for; "" when the escape is not one the
\* model covers.
Escaped(c) ==
  IF c \in {"/", ":", "."} THEN c
  ELSE IF c = "a" THEN BEL
  ELSE ""

\* regexp.Compile: the atoms of the expression, or InvalidRegexp.
RECURSIVE Compile(_)
Compile(re) ==
  IF Len(re) = 0 THEN [ok |-> TRUE, atoms |-> << >>]
  ELSE
    LET c == re[1]
        then(atom, n) ==
          LET rest == Compile(SubSeq(re, n + 1, Len(re)))
          IN  IF rest.ok THEN [ok |-> TRUE, atoms |-> << atom >> \o rest.atoms]
              ELSE InvalidRegexp
    IN  IF c = "^" THEN then(Bol, 1)
        ELSE IF c = "$" THEN then(Eol, 1)
        ELSE IF c = "." THEN then(AnyChar, 1)
        ELSE IF c = "\\" THEN
          IF Len(re) >= 2 /\ Escaped(re[2]) # "" THEN then(Lit(Escaped(re[2])), 2)
          ELSE InvalidRegexp
        ELSE IF c = "(" THEN
          IF HasPrefix(re, GroupText) THEN then(Group, Len(GroupText))
          ELSE InvalidRegexp
        ELSE IF c \in {"[", "]", ")", "+"} THEN InvalidRegexp
        ELSE then(Lit(c), 1)

NoMatch == [found |-> FALSE, end |-> 0, caps |-> << >>]

\* The leftmost-first match of atoms[k..] against s from position j (the
\* next character is s[j]): where it ends and what its groups captured.
RECURSIVE MatchAt(_, _, _, _)
RECURSIVE MatchGroup(_, _, _, _, _)
MatchAt(atoms, k, s, j) ==
  IF k > Len(atoms) THEN [found |-> TRUE, end |-> j, caps |-> << >>]
  ELSE
    LET a == atoms[k]
    IN  CASE a.t = "bol" -> IF j = 1 THEN MatchAt(atoms, k + 1, s, j) ELSE NoMatch
          [] a.t = "eol" -> IF j = Len(s) + 1 THEN MatchAt(atoms, k + 1, s, j) ELSE NoMatch
          [] a.t = "lit" -> IF j <= Len(s) /\ s[j] = a.c
                            THEN MatchAt(atoms, k + 1, s, j + 1) ELSE NoMatch
          [] a.t = "any" -> IF j <= Len(s) THEN MatchAt(atoms, k + 1, s, j + 1) ELSE NoMatch
          [] a.t = "group" ->
               LET run == CHOOSE n \in 0..(Len(s) - j + 1) :
                            /\ \A i \in j..(j + n - 1) : s[i] # "/"
                            /\ (j + n <= Len(s) => s[j + n] = "/")
               IN  MatchGroup(atoms, k, s, j, run)

\* The group [^\/]+ is greedy: the longest run first, then shorter ones.
MatchGroup(atoms, k, s, j, n) ==
  IF n < 1 THEN NoMatch
  ELSE LET m == MatchAt(atoms, k + 1, s, j + n)
       IN  IF m.found
           THEN [found |-> TRUE, end |-> m.end,
                 caps |-> << SubSeq(s, j, j + n - 1) >> \o m.caps]
           ELSE MatchGroup(atoms, k, s, j, n - 1)

\* Regexp.FindAllStringSubmatch(s, -1): the successive non-overlapping
\* matches from position p on, each as << whole match, group 1, ... >>.
RECURSIVE FindAllFrom(_, _, _)
FindAllFrom(atoms, s, p) ==
  IF p > Len(s) + 1 THEN << >>
  ELSE LET m == MatchAt(atoms, 1, s, p)
       IN  IF ~m.found THEN FindAllFrom(atoms, s, p + 1)
           ELSE << << SubSeq(s, p, m.end - 1) >> \o m.caps >>
                \o FindAllFrom(atoms, s, IF m.end = p THEN p + 1 ELSE m.end)

FindAllStringSubmatch(atoms, s) == FindAllFrom(atoms, s, 1)

\* Regexp.MatchString(s): some match, anywhere in s.
MatchString(atoms, s) == \E p \in 1..(Len(s) + 1) : MatchAt(atoms, 1, s, p).found

-----------------------------------------------------------------------------
(* Maps (Go map[string]string and friends) as functions.                   *)

EmptyMap == [k \in {} |-> << >>]

MapPut(m, k, v) == [x \in (DOMAIN m) \cup {k} |-> IF x = k THEN v ELSE m[x]]

MapDelete(m, k) == [x \in (DOMAIN m) \ {k} |-> m[x]]

-----------------------------------------------------------------------------
(* Path patterns and route entries.                                        *)

\* buildItems that collects the names right to left.
RECURSIVE buildItemsNamesReversed(_)
buildItemsNamesReversed(parts) ==
  IF Len(parts) = 0 THEN [items |-> << >>, names |-> << >>]
  ELSE LET part == parts[1]
           rest == buildItemsNamesReversed(Tail(parts))
       IN  IF HasPrefix(part, << ":" >>)
           THEN [items |-> << GroupText >> \o rest.items,
                 names |-> rest.names \o << Trim(part) >>]
           ELSE [items |-> << part >> \o rest.items, names |-> rest.names]

\* buildRegexpFor: the text of the regular expression for a route path,
\* and the names of its parameters, left to right.
RECURSIVE buildItems(_)
buildItems(parts) ==
  IF Len(parts) = 0 THEN [items |-> << >>, names |-> << >>]
  ELSE LET part == parts[1]
           rest == buildItems(Tail(parts))
       IN  IF HasPrefix(part, << ":" >>)
           THEN [items |-> << GroupText >> \o rest.items,
                 names |-> << Trim(part) >> \o rest.names]
           ELSE [items |-> << part >> \o rest.items, names |-> rest.names]

buildRegexpFor(path) ==
  LET built == buildItems(Split(path))
  IN  [regexpPath |-> << "^" >> \o Join(built.items, << "\\", "/" >>) \o << "$" >>,
       withParamNames |-> built.names]

\* shouldMount that asks for the mount path itself.
shouldMountExact(mReqHandler, path) == mReqHandler.MountPath = path

\* middlewareRequestHandler.shouldMount
shouldMount(mReqHandler, path) == MatchString(mReqHandler.Matcher, path)

\* Router.middlewareToMount: the handlers of the mounts that apply to path,
\* in mount order.
RECURSIVE mountedOf(_, _)
mountedOf(mws, path) ==
  IF Len(mws) = 0 THEN << >>
  ELSE (IF shouldMount(mws[1], path) THEN << mws[1].Handle >> ELSE << >>)
       \o mountedOf(Tail(mws), path)

middlewareToMount(mws, path) == mountedOf(mws, path)

\* makeRequestHandler with the mounted handlers placed after the given ones.
makeRequestHandlerOwnFirst(mws, path, handlers) ==
  LET built == buildRegexpFor(path)
  IN  [Path |-> path,
       ParamNames |-> built.withParamNames,
       Regex |-> Compile(built.regexpPath),
       Tokenized |-> Len(built.withParamNames) # 0,
       Handlers |-> handlers \o middlewareToMount(mws, path)]

\* Router.makeRequestHandler: the route entry for path, with the handlers of
\* the mounts registered so far placed before the given ones.
makeRequestHandler(mws, path, handlers) ==
  LET built == buildRegexpFor(path)
  IN  [Path |-> path,
       ParamNames |-> built.withParamNames,
       Regex |-> Compile(built.regexpPath),
       Tokenized |-> Len(built.withParamNames) # 0,
       Handlers |-> middlewareToMount(mws, path) \o handlers]

\* bindParams that reads the submatches from the whole match on.
RECURSIVE bindParamsFromWholeMatch(_, _, _, _)
bindParamsFromWholeMatch(names, match, i, withParams) ==
  IF i > Len(names) THEN withParams
  ELSE bindParamsFromWholeMatch(names, match, i + 1, MapPut(withParams, names[i], match[i]))

\* The loop of requestHandler.matches that binds names to submatches.
RECURSIVE bindParams(_, _, _, _)
bindParams(names, match, i, withParams) ==
  IF i > Len(names) THEN withParams
  ELSE bindParams(names, match, i + 1, MapPut(withParams, names[i], match[i + 1]))

\* matches that uses the pattern for every entry, tokenized or not.
matchesByRegexp(reqHandler, path) ==
  LET found == FindAllStringSubmatch(reqHandler.Regex.atoms, path)
  IN  IF Len(found) # 0
      THEN [isAMatch |-> TRUE,
            withParams |-> bindParams(reqHandler.ParamNames, found[1], 1, EmptyMap)]
      ELSE [isAMatch |-> FALSE, withParams |-> EmptyMap]

\* requestHandler.matches
matches(reqHandler, path) ==
  IF ~reqHandler.Tokenized
  THEN [isAMatch |-> reqHandler.Path = path, withParams |-> EmptyMap]
  ELSE LET found == FindAllStringSubmatch(reqHandler.Regex.atoms, path)
       IN  IF Len(found) # 0
           THEN [isAMatch |-> TRUE,
                 withParams |-> bindParams(reqHandler.ParamNames, found[1], 1, EmptyMap)]
           ELSE [isAMatch |-> FALSE, withParams |-> EmptyMap]

-----------------------------------------------------------------------------
(* The store of a RequestContext (map[interface{}]interface{}).            *)

Nil == "nil"

\* The nil map of a context no one has stored anything in.
NilStore == [made |-> FALSE, m |-> EmptyMap]

\* new(RequestContext)
NewRequestContext ==
  [Params |-> EmptyMap, inError |-> FALSE, handlers |-> << >>, currentHandler |-> 0,
   errorHandler |-> "", store |-> NilStore]

\* RequestContext.makeStoreIfNotExist
makeStoreIfNotExist(cntxt) ==
  IF ~cntxt.store.made THEN [cntxt EXCEPT !.store = [made |-> TRUE, m |-> EmptyMap]]
  ELSE cntxt

\* cntxt.store[key]: nil for a key the map does not hold.
StoreIndex(cntxt, key) ==
  IF key \in DOMAIN cntxt.store.m THEN cntxt.store.m[key] ELSE Nil

\* RequestContext.Set: the context after it and what it returns.
RequestContextSet(cntxt, key, val) ==
  LET made == makeStoreIfNotExist(cntxt)
  IN  IF StoreIndex(made, key) # Nil THEN [cntxt |-> made, ok |-> FALSE]
      ELSE [cntxt |-> [made EXCEPT !.store.m = MapPut(@, key, val)], ok |-> TRUE]

\* ForceSet that leaves a key that is in use alone.
RequestContextForceSetKeeps(cntxt, key, val) ==
  [cntxt |-> RequestContextSet(cntxt, key, val).cntxt]

\* RequestContext.ForceSet
RequestContextForceSet(cntxt, key, val) ==
  LET made == makeStoreIfNotExist(cntxt)
  IN  [cntxt |-> [made EXCEPT !.store.m = MapPut(@, key, val)]]

\* Get that takes a nil value for a missing key.
RequestContextGetNonNil(cntxt, key) ==
  LET made == makeStoreIfNotExist(cntxt)
  IN  [cntxt |-> made, val |-> StoreIndex(made, key), ok |-> StoreIndex(made, key) # Nil]

\* RequestContext.Get: the context after it and the pair it returns.
RequestContextGet(cntxt, key) ==
  LET made == makeStoreIfNotExist(cntxt)
  IN  [cntxt |-> made, val |-> StoreIndex(made, key), ok |-> key \in DOMAIN made.store.m]

\* Delete that empties the store.
RequestContextDeleteAll(cntxt, key) ==
  LET made == makeStoreIfNotExist(cntxt)
  IN  [cntxt |-> [made EXCEPT !.store.m = EmptyMap]]

\* RequestContext.Delete
RequestContextDelete(cntxt, key) ==
  LET made == makeStoreIfNotExist(cntxt)
  IN  [cntxt |-> [made EXCEPT !.store.m = MapDelete(@, key)]]

-----------------------------------------------------------------------------
(* The Router and the state of a dispatch.                                 *)

AllMethods == {"GET", "POST", "PUT", "DELETE", "PATCH", "OPTIONS", "HEAD"}

DefaultErrorHandler == "defaultErrorHandler"

NoReq == [ptr |-> "", Method |-> "", Path |-> << >>]

NoResult == [done |-> FALSE, isAMatch |-> FALSE, withParams |-> EmptyMap]

\* The code of a handler, as far as the router can tell: the statements it
\* runs and the calls it makes on Context(req), in order.
Stmt == [op |-> "Stmt", err |-> "", code |-> 0]
CallNext == [op |-> "Next", err |-> "", code |-> 0]
CallError(err, code) == [op |-> "Error", err |-> err, code |-> code]
Return == [op |-> "Return", err |-> "", code |-> 0]
CallPanic == [op |-> "Panic", err |-> "", code |-> 0]
CallServeHTTP == [op |-> "ServeHTTP", err |-> "", code |-> 0]

\* The handler code the model runs: a writer, a wrapper around the rest of
\* the chain, one that fails and returns, one that fails and goes on, one
\* that fails twice, one that calls Next twice, one that fails after the
\* rest of the chain has run.
Code(body) ==
  CASE body = "Writer" -> << Stmt >>
    [] body = "Wrapper" -> << Stmt, CallNext, Stmt >>
    [] body = "Failing" -> << CallError("boom", 500), Return, Stmt >>
    [] body = "FailingOn" -> << CallError("denied", 403), Stmt, CallNext, Stmt >>
    [] body = "FailingTwice" -> << CallError("boom", 500), CallError("denied", 403) >>
    [] body = "NextTwice" -> << CallNext, CallNext, Stmt >>
    [] body = "FailingLate" -> << CallNext, CallError("late", 502) >>
    [] body = "Panicking" -> << Stmt, CallPanic >>
    [] body = "Redispatching" -> << CallServeHTTP, CallNext, Stmt >>
    [] OTHER -> << >>

Bodies == {"Writer", "Wrapper", "Failing", "FailingOn", "FailingTwice", "NextTwice",
           "FailingLate"}

ServeFrame == [fn |-> "ServeHTTP", h |-> "", pos |-> 0, pc |-> 0, body |-> ""]
HandlerFrame(h, pos, body) == [fn |-> "handler", h |-> h, pos |-> pos, pc |-> 1, body |-> body]

\* An entry of the log: what happened (ev), in which handler (h, at
\* position pos of the chain, at statement pc), and what was passed or seen.
Event(ev, frame) ==
  [ev |-> ev, h |-> frame.h, pos |-> frame.pos, pc |-> frame.pc,
   err |-> "", code |-> 0, flag |-> FALSE, cur |-> 0, body |-> frame.body]

Idle == stack = << >> /\ ~panicked

Top == stack[Len(stack)]

TopOp == IF Top.pc <= Len(Code(Top.body)) THEN Code(Top.body)[Top.pc].op ELSE "Return"

TotalRoutes ==
  Cardinality(UNION {{<< m, i >> : i \in 1..Len(routes[m])} : m \in DOMAIN routes})

\* No request is being served concurrently.
NoGoroutines == << >>

\* NewRouter, and no request served yet.
RouterInit ==
  /\ routes = [m \in AllMethods |-> << >>]
  /\ middleware = << >>
  /\ history = << >>
  /\ NotFoundHandler = Nil
  /\ ErrorHandler = DefaultErrorHandler
  /\ contexts = << >>
  /\ requestContextStore = EmptyMap
  /\ req = NoReq
  /\ stack = << >>
  /\ log = << >>
  /\ panicked = FALSE

Init ==
  /\ RouterInit
  /\ tmpl = << >>
  /\ cand = << >>
  /\ res = NoResult
  /\ goroutines = NoGoroutines

\* What is left of the last request is dropped when the Router is set up
\* further.
Forget ==
  /\ contexts' = << >>
  /\ req' = NoReq
  /\ log' = << >>
  /\ UNCHANGED << requestContextStore, stack >>

\* registerRequestHandler that keeps the entry of a pattern that does not
\* compile and returns.
registerRequestHandlerSwallows(method, path, handlers) ==
  /\ Idle
  /\ LET reqHandler == makeRequestHandler(middleware, path, handlers)
     IN  /\ routes' = [routes EXCEPT ![method] = Append(@, reqHandler)]
         /\ panicked' = FALSE
  /\ history' = Append(history, [call |-> "register", method |-> method,
                                  path |-> path, handlers |-> handlers])
  /\ Forget
  /\ UNCHANGED << middleware, NotFoundHandler, ErrorHandler, matchVars, goroutines >>

\* registerRequestHandler that puts the new entry in front of the bucket.
registerRequestHandlerInFront(method, path, handlers) ==
  /\ Idle
  /\ LET reqHandler == makeRequestHandler(middleware, path, handlers)
     IN  IF reqHandler.Regex.ok
         THEN /\ routes' = [routes EXCEPT ![method] = << reqHandler >> \o @]
              /\ panicked' = FALSE
         ELSE /\ routes' = routes
              /\ panicked' = TRUE
  /\ history' = Append(history, [call |-> "register", method |-> method,
                                  path |-> path, handlers |-> handlers])
  /\ Forget
  /\ UNCHANGED << middleware, NotFoundHandler, ErrorHandler, matchVars, goroutines >>

\* Router.registerRequestHandler, reached through Get, Post, Put, Delete,
\* Patch, Options and Head. regexp.MustCompile panics on an invalid pattern.
registerRequestHandler(method, path, handlers) ==
  /\ Idle
  /\ LET reqHandler == makeRequestHandler(middleware, path, handlers)
     IN  IF reqHandler.Regex.ok
         THEN /\ routes' = [routes EXCEPT ![method] = Append(@, reqHandler)]
              /\ panicked' = FALSE
         ELSE /\ routes' = routes
              /\ panicked' = TRUE
  /\ history' = Append(history, [call |-> "register", method |-> method,
                                  path |-> path, handlers |-> handlers])
  /\ Forget
  /\ UNCHANGED << middleware, NotFoundHandler, ErrorHandler, matchVars, goroutines >>

\* Mount that also puts the handler in front of the chains of the routes
\* registered before it.
MountRetroactive(mountPath, handler) ==
  /\ Idle
  /\ LET matcher == Compile(<< "^", "\\" >> \o mountPath)
         mReqHandler == [MountPath |-> mountPath, Handle |-> handler,
                         Matcher |-> matcher.atoms]
     IN  /\ middleware' = Append(middleware, mReqHandler)
         /\ routes' = [m \in DOMAIN routes |->
                         [i \in 1..Len(routes[m]) |->
                            IF shouldMount(mReqHandler, routes[m][i].Path)
                            THEN [routes[m][i] EXCEPT !.Handlers = << handler >> \o @]
                            ELSE routes[m][i]]]
         /\ panicked' = FALSE
  /\ history' = Append(history, [call |-> "Mount", method |-> "",
                                  path |-> mountPath, handlers |-> << handler >>])
  /\ Forget
  /\ UNCHANGED << NotFoundHandler, ErrorHandler, matchVars, goroutines >>

\* Router.Mount
Mount(mountPath, handler) ==
  /\ Idle
  /\ LET matcher == Compile(<< "^", "\\" >> \o mountPath)
         mReqHandler == [MountPath |-> mountPath, Handle |-> handler,
                         Matcher |-> matcher.atoms]
     IN  IF matcher.ok
         THEN /\ middleware' = Append(middleware, mReqHandler)
              /\ panicked' = FALSE
         ELSE /\ middleware' = middleware
              /\ panicked' = TRUE
  /\ history' = Append(history, [call |-> "Mount", method |-> "",
                                  path |-> mountPath, handlers |-> << handler >>])
  /\ Forget
  /\ UNCHANGED << routes, NotFoundHandler, ErrorHandler, matchVars, goroutines >>

\* scan without the break: the last matching entry wins.
RECURSIVE scanNoBreak(_, _, _)
scanNoBreak(bucket, i, path) ==
  IF i > Len(bucket) THEN 0
  ELSE LET later == scanNoBreak(bucket, i + 1, path)
       IN  IF later # 0 THEN later
           ELSE IF matches(bucket[i], path).isAMatch THEN i ELSE 0

\* The loop of ServeHTTP over the entries of the method: the index of the
\* entry it dispatches, 0 when it reaches the end without a match.
RECURSIVE scan(_, _, _)
scan(bucket, i, path) ==
  IF i > Len(bucket) THEN 0
  ELSE IF matches(bucket[i], path).isAMatch THEN i
  ELSE scan(bucket, i + 1, path)

\* methodRoutes with one bucket for all methods.
methodRoutesShared(method) == routes["GET"] \o routes["POST"]

\* router.routes[method]: the entries of the method, none for a method the
\* map has no key for.
methodRoutes(method) == IF method \in DOMAIN routes THEN routes[method] ELSE << >>

\* Context that finds no context for any request.
ContextAlwaysNil(r) == 0

\* Context(req): the index of the context in contexts, 0 for nil.
Context(r) ==
  IF r.ptr \in DOMAIN requestContextStore THEN requestContextStore[r.ptr] ELSE 0

NoopHandler == "noop"
OutOfRange == "index out of range"

\* handlers[i] of a Go slice (i counts from 0).
Index(handlers, i) ==
  IF i >= 0 /\ i < Len(handlers) THEN handlers[i + 1] ELSE OutOfRange

\* Next that takes the empty handler one call too late.
RequestContextNextOffByOne(cntxt) ==
  IF cntxt.inError THEN [cntxt |-> cntxt, handler |-> ""]
  ELSE LET handler == IF Len(cntxt.handlers) < cntxt.currentHandler
                      THEN NoopHandler
                      ELSE Index(cntxt.handlers, cntxt.currentHandler)
       IN  [cntxt |-> [cntxt EXCEPT !.currentHandler = @ + 1], handler |-> handler]

\* Next without the test of the abort flag.
RequestContextNextNoAbortCheck(cntxt) ==
  LET handler == IF Len(cntxt.handlers) < cntxt.currentHandler + 1
                 THEN NoopHandler
                 ELSE Index(cntxt.handlers, cntxt.currentHandler)
  IN  [cntxt |-> [cntxt EXCEPT !.currentHandler = @ + 1], handler |-> handler]

\* Next that runs the last handler once more when the cursor is just past
\* the end.
RequestContextNextRepeatsLast(cntxt) ==
  IF cntxt.inError THEN [cntxt |-> cntxt, handler |-> ""]
  ELSE LET handler == IF Len(cntxt.handlers) < cntxt.currentHandler
                      THEN NoopHandler
                      ELSE IF Len(cntxt.handlers) = cntxt.currentHandler
                      THEN Index(cntxt.handlers, cntxt.currentHandler - 1)
                      ELSE Index(cntxt.handlers, cntxt.currentHandler)
       IN  [cntxt |-> [cntxt EXCEPT !.currentHandler = @ + 1], handler |-> handler]

\* Next that advances the cursor of an aborted context too.
RequestContextNextCountsAborted(cntxt) ==
  IF cntxt.inError
  THEN [cntxt |-> [cntxt EXCEPT !.currentHandler = @ + 1], handler |-> ""]
  ELSE LET handler == IF Len(cntxt.handlers) < cntxt.currentHandler + 1
                      THEN NoopHandler
                      ELSE Index(cntxt.handlers, cntxt.currentHandler)
       IN  [cntxt |-> [cntxt EXCEPT !.currentHandler = @ + 1], handler |-> handler]

\* RequestContext.Next up to the call of the handler: the context after it
\* and the handler it calls ("" when it returns at once).
RequestContextNext(cntxt) ==
  IF cntxt.inError THEN [cntxt |-> cntxt, handler |-> ""]
  ELSE LET handler == IF Len(cntxt.handlers) < cntxt.currentHandler + 1
                      THEN NoopHandler
                      ELSE Index(cntxt.handlers, cntxt.currentHandler)
       IN  [cntxt |-> [cntxt EXCEPT !.currentHandler = @ + 1], handler |-> handler]

\* defaultErrorHandler (http.Error): the response it writes, and the abort
\* flag of the request's context at that moment.
ErrorHandlerCall(cntxt, err, code) ==
  [ev |-> "errorHandler", h |-> cntxt.errorHandler, pos |-> 0, pc |-> 0,
   err |-> err, code |-> code, flag |-> cntxt.inError, cur |-> cntxt.currentHandler,
   body |-> ""]

\* Error that calls the responder for the first failure only.
RequestContextErrorOnce(cntxt, err, code) ==
  LET aborted == [cntxt EXCEPT !.inError = TRUE]
  IN  [cntxt |-> aborted,
       responded |-> IF cntxt.inError THEN << >>
                     ELSE << ErrorHandlerCall(aborted, err, code) >>]

\* Error that calls the responder the Router has at the moment of the call.
RequestContextErrorCurrent(cntxt, err, code) ==
  LET aborted == [cntxt EXCEPT !.inError = TRUE]
  IN  [cntxt |-> aborted,
       responded |-> << ErrorHandlerCall([aborted EXCEPT !.errorHandler = ErrorHandler],
                                         err, code) >>]

\* RequestContext.Error: the context after it and the responder calls made.
RequestContextError(cntxt, err, code) ==
  LET aborted == [cntxt EXCEPT !.inError = TRUE]
  IN  [cntxt |-> aborted, responded |-> << ErrorHandlerCall(aborted, err, code) >>]

\* notFound that also writes the default response when a NotFoundHandler
\* is set.
notFoundDefaultOnly(r) ==
  [ev |-> "notFound", h |-> "http.NotFound", pos |-> 0, pc |-> 0,
   err |-> "", code |-> 404, flag |-> Context(r) # 0, cur |-> 0, body |-> ""]

\* Router.notFound: the responder that runs (the NotFoundHandler when one
\* is set, http.NotFound otherwise), and whether Context(r) is set while it
\* runs.
notFound(r) ==
  [ev |-> "notFound",
   h |-> IF NotFoundHandler # Nil THEN NotFoundHandler ELSE "http.NotFound",
   pos |-> 0, pc |-> 0,
   err |-> "", code |-> 404, flag |-> Context(r) # 0, cur |-> 0, body |-> ""]

\* The frame and the log entry of the handler a Next call invokes.
Invoked(n, body) ==
  IF n.handler \in {"", NoopHandler, OutOfRange} THEN << >>
  ELSE << HandlerFrame(n.handler, n.cntxt.currentHandler, body) >>

Entered(n, body) ==
  IF n.handler \in {"", NoopHandler, OutOfRange} THEN << >>
  ELSE << Event("enter", HandlerFrame(n.handler, n.cntxt.currentHandler, body)) >>

NextCalled(frame, cntxt) ==
  [Event("next", frame) EXCEPT !.cur = cntxt.currentHandler, !.flag = cntxt.inError]

\* ServeHTTP that mounts, at dispatch, the handlers whose mount path matches
\* the request path.
ServeHTTPResolvesMounts(r, body) ==
  /\ Idle
  /\ LET bucket == methodRoutes(r.Method)
         i == scan(bucket, 1, r.Path)
     IN  IF i # 0
         THEN LET reqHandler == bucket[i]
                  cntxt == [Params |-> matches(reqHandler, r.Path).withParams,
                            inError |-> FALSE,
                            handlers |-> middlewareToMount(middleware, r.Path)
                                          \o reqHandler.Handlers,
                            currentHandler |-> 0,
                            errorHandler |-> ErrorHandler,
                            store |-> NilStore]
                  n == RequestContextNext(cntxt)
              IN  /\ contexts' = << n.cntxt >>
                  /\ requestContextStore' = MapPut(requestContextStore, r.ptr, 1)
                  /\ log' = << [Event("dispatch", ServeFrame) EXCEPT !.cur = i,
                                                                      !.h = ErrorHandler],
                               NextCalled(ServeFrame, cntxt) >> \o Entered(n, body)
                  /\ IF n.handler = OutOfRange
                     THEN stack' = << >> /\ panicked' = TRUE
                     ELSE stack' = << ServeFrame >> \o Invoked(n, body) /\ panicked' = FALSE
         ELSE /\ contexts' = << >>
              /\ requestContextStore' = requestContextStore
              /\ log' = << notFound(r) >>
              /\ stack' = << >>
              /\ panicked' = FALSE
  /\ req' = r
  /\ UNCHANGED << routerVars, matchVars, goroutines >>

\* Router.ServeHTTP up to the first handler's first statement (matched), or
\* to its end (unmatched). body is the code of the handler it starts.
ServeHTTP(r, body) ==
  /\ Idle
  /\ LET bucket == methodRoutes(r.Method)
         i == scan(bucket, 1, r.Path)
     IN  IF i # 0
         THEN LET reqHandler == bucket[i]
                  cntxt == [Params |-> matches(reqHandler, r.Path).withParams,
                            inError |-> FALSE,
                            handlers |-> reqHandler.Handlers,
                            currentHandler |-> 0,
                            errorHandler |-> ErrorHandler,
                            store |-> NilStore]
                  n == RequestContextNext(cntxt)
              IN  /\ contexts' = << n.cntxt >>
                  /\ requestContextStore' = MapPut(requestContextStore, r.ptr, 1)
                  /\ log' = << [Event("dispatch", ServeFrame) EXCEPT !.cur = i,
                                                                      !.h = ErrorHandler],
                               NextCalled(ServeFrame, cntxt) >> \o Entered(n, body)
                  /\ IF n.handler = OutOfRange
                     THEN stack' = << >> /\ panicked' = TRUE
                     ELSE stack' = << ServeFrame >> \o Invoked(n, body) /\ panicked' = FALSE
         ELSE /\ contexts' = << >>
              /\ requestContextStore' = requestContextStore
              /\ log' = << notFound(r) >>
              /\ stack' = << >>
              /\ panicked' = FALSE
  /\ req' = r
  /\ UNCHANGED << routerVars, matchVars, goroutines >>

Running(op) == stack # << >> /\ ~panicked /\ Top.fn = "handler" /\ TopOp = op

Advance == [stack EXCEPT ![Len(stack)].pc = @ + 1]

\* A handler calls Context(req).Next(res, req). body is the code of the
\* handler this starts.
HandlerNext(body) ==
  /\ Running("Next")
  /\ LET c == Context(req)
     IN  IF c = 0
         THEN /\ stack' = << >> /\ panicked' = TRUE
              /\ UNCHANGED << contexts, log >>
         ELSE LET n == RequestContextNext(contexts[c])
              IN  /\ contexts' = [contexts EXCEPT ![c] = n.cntxt]
                  /\ log' = log \o << NextCalled(Top, contexts[c]) >> \o Entered(n, body)
                  /\ IF n.handler = OutOfRange
                     THEN stack' = << >> /\ panicked' = TRUE
                     ELSE stack' = Advance \o Invoked(n, body) /\ panicked' = FALSE
  /\ UNCHANGED << routerVars, requestContextStore, req, matchVars, goroutines >>

\* Error that also ends the handler that calls it.
HandlerErrorReturns ==
  /\ Running("Error")
  /\ LET c == Context(req)
         op == Code(Top.body)[Top.pc]
         e == RequestContextError(contexts[c], op.err, op.code)
     IN  /\ contexts' = [contexts EXCEPT ![c] = e.cntxt]
         /\ log' = log \o << [Event("error", Top) EXCEPT !.err = op.err, !.code = op.code] >>
                       \o e.responded \o << Event("exit", Top) >>
         /\ stack' = SubSeq(stack, 1, Len(stack) - 1)
         /\ panicked' = FALSE
  /\ UNCHANGED << routerVars, requestContextStore, req, matchVars, goroutines >>

\* Error that unwinds every handler of the chain, back to ServeHTTP.
HandlerErrorUnwinds ==
  /\ Running("Error")
  /\ LET c == Context(req)
         op == Code(Top.body)[Top.pc]
         e == RequestContextError(contexts[c], op.err, op.code)
     IN  /\ contexts' = [contexts EXCEPT ![c] = e.cntxt]
         /\ log' = log \o << [Event("error", Top) EXCEPT !.err = op.err, !.code = op.code] >>
                       \o e.responded
         /\ stack' = << ServeFrame >>
         /\ panicked' = FALSE
  /\ UNCHANGED << routerVars, requestContextStore, req, matchVars, goroutines >>

\* A handler calls Context(req).Error(res, req, err, code).
HandlerError ==
  /\ Running("Error")
  /\ LET c == Context(req)
         op == Code(Top.body)[Top.pc]
     IN  IF c = 0
         THEN /\ stack' = << >> /\ panicked' = TRUE
              /\ UNCHANGED << contexts, log >>
         ELSE LET e == RequestContextError(contexts[c], op.err, op.code)
              IN  /\ contexts' = [contexts EXCEPT ![c] = e.cntxt]
                  /\ IF contexts[c].errorHandler = Nil
                     THEN /\ log' = Append(log, [Event("error", Top) EXCEPT !.err = op.err,
                                                                            !.code = op.code])
                          /\ stack' = << >>
                          /\ panicked' = TRUE
                     ELSE /\ log' = log \o << [Event("error", Top) EXCEPT !.err = op.err,
                                                                          !.code = op.code] >>
                                        \o e.responded
                          /\ stack' = Advance
                          /\ panicked' = FALSE
  /\ UNCHANGED << routerVars, requestContextStore, req, matchVars, goroutines >>

\* router.ErrorHandler = h, at any moment.
SetErrorHandler(h) ==
  /\ ~panicked
  /\ ErrorHandler # h
  /\ ErrorHandler' = h
  /\ UNCHANGED << routes, middleware, history, NotFoundHandler, serveVars, matchVars,
                  goroutines >>

\* router.NotFoundHandler = h, at any moment.
SetNotFoundHandler(h) ==
  /\ ~panicked
  /\ NotFoundHandler # h
  /\ NotFoundHandler' = h
  /\ UNCHANGED << routes, middleware, history, ErrorHandler, serveVars, matchVars,
                  goroutines >>

\* The ServeHTTP calls one inside the other that the model follows.
MaxDepth == 2

\* A handler passes the request it serves to ServeHTTP (of this Router, or
\* of a Router mounted under it): ServeHTTP up to the first handler's first
\* statement, called from a running chain. body is the code of the handler
\* it starts.
HandlerServeHTTP(body) ==
  /\ Running("ServeHTTP")
  /\ Len(contexts) < MaxDepth
  /\ LET bucket == methodRoutes(req.Method)
         i == scan(bucket, 1, req.Path)
         reqHandler == bucket[i]
         cntxt == [Params |-> matches(reqHandler, req.Path).withParams,
                   inError |-> FALSE,
                   handlers |-> reqHandler.Handlers,
                   currentHandler |-> 0,
                   errorHandler |-> ErrorHandler,
                   store |-> NilStore]
         n == RequestContextNext(cntxt)
     IN  /\ i # 0
         /\ contexts' = Append(contexts, n.cntxt)
         /\ requestContextStore' = MapPut(requestContextStore, req.ptr, Len(contexts) + 1)
         /\ log' = log \o << [Event("dispatch", ServeFrame) EXCEPT !.cur = i,
                                                                    !.h = ErrorHandler],
                              NextCalled(ServeFrame, cntxt) >> \o Entered(n, body)
         /\ stack' = Advance \o << ServeFrame >> \o Invoked(n, body)
  /\ UNCHANGED << routerVars, req, panicked, matchVars, goroutines >>

\* A handler panics: the panic unwinds the Next calls and ServeHTTP, past
\* the clean up of ServeHTTP, which is not deferred.
HandlerPanic ==
  /\ Running("Panic")
  /\ log' = Append(log, Event("panic", Top))
  /\ stack' = << >>
  /\ panicked' = TRUE
  /\ UNCHANGED << routerVars, contexts, requestContextStore, req, matchVars, goroutines >>

\* A handler calls Set, ForceSet, Get or Delete on Context(req), between two
\* statements of its body.
HandlerStoreCall(call, key, val) ==
  /\ stack # << >> /\ ~panicked /\ Top.fn = "handler"
  /\ LET c == Context(req)
     IN  /\ c # 0
         /\ contexts' = [contexts EXCEPT ![c] =
               CASE call = "Set" -> RequestContextSet(@, key, val).cntxt
                 [] call = "ForceSet" -> RequestContextForceSet(@, key, val).cntxt
                 [] call = "Get" -> RequestContextGet(@, key).cntxt
                 [] call = "Delete" -> RequestContextDelete(@, key).cntxt]
  /\ UNCHANGED << routerVars, requestContextStore, req, stack, log, panicked, matchVars,
                  goroutines >>

\* A handler runs a statement of its own (writes to the response, logs).
HandlerStmt ==
  /\ Running("Stmt")
  /\ log' = Append(log, Event("stmt", Top))
  /\ stack' = Advance
  /\ UNCHANGED << routerVars, contexts, requestContextStore, req, panicked, matchVars, goroutines >>

\* A handler's return that hands over to the following handler by itself.
HandlerReturnFallsThrough ==
  /\ Running("Return")
  /\ LET c == Context(req)
         n == RequestContextNext(contexts[c])
     IN  /\ contexts' = [contexts EXCEPT ![c] = n.cntxt]
         /\ log' = log \o << Event("exit", Top) >> \o Entered(n, "Writer")
         /\ stack' = SubSeq(stack, 1, Len(stack) - 1) \o Invoked(n, "Writer")
  /\ UNCHANGED << routerVars, requestContextStore, req, panicked, matchVars, goroutines >>

\* A handler returns, at a return statement or at the end of its code.
HandlerReturn ==
  /\ Running("Return")
  /\ log' = Append(log, Event("exit", Top))
  /\ stack' = SubSeq(stack, 1, Len(stack) - 1)
  /\ UNCHANGED << routerVars, contexts, requestContextStore, req, panicked, matchVars, goroutines >>

\* The end of ServeHTTP without the clean up.
ServeHTTPReturnNoCleanUp ==
  /\ stack # << >> /\ ~panicked /\ Top.fn = "ServeHTTP"
  /\ log' = Append(log, Event("served", Top))
  /\ stack' = << >>
  /\ UNCHANGED << routerVars, contexts, requestContextStore, req, panicked, matchVars, goroutines >>

\* Router.ServeHTTP after cntxt.Next has returned: the clean up.
\* ServeHTTP that does not return once the chain is done.
ServeHTTPReturnBlocks ==
  /\ stack # << >> /\ ~panicked /\ Top.fn = "ServeHTTP"
  /\ FALSE
  /\ UNCHANGED vars

\* ServeHTTP that empties the handler list of the entry it dispatched.
ServeHTTPReturnConsumesChain ==
  /\ stack # << >> /\ ~panicked /\ Top.fn = "ServeHTTP"
  /\ requestContextStore' = MapDelete(requestContextStore, req.ptr)
  /\ log' = Append(log, Event("served", Top))
  /\ stack' = << >>
  /\ routes' = [routes EXCEPT ![req.Method][log[1].cur].Handlers = << >>]
  /\ UNCHANGED << middleware, history, NotFoundHandler, ErrorHandler, contexts, req,
                  panicked, matchVars, goroutines >>

\* ServeHTTP that calls the not-found responder when the chain has written
\* nothing.
ServeHTTPReturnNotFoundWhenSilent ==
  /\ stack # << >> /\ ~panicked /\ Top.fn = "ServeHTTP"
  /\ requestContextStore' = MapDelete(requestContextStore, req.ptr)
  /\ log' = log \o (IF \A k \in 1..Len(log) : log[k].ev \notin {"stmt", "errorHandler"}
                     THEN << notFound(req) >> ELSE << >>)
                \o << Event("served", Top) >>
  /\ stack' = << >>
  /\ UNCHANGED << routerVars, contexts, req, panicked, matchVars, goroutines >>

ServeHTTPReturn ==
  /\ stack # << >> /\ ~panicked /\ Top.fn = "ServeHTTP"
  /\ requestContextStore' = MapDelete(requestContextStore, req.ptr)
  /\ log' = Append(log, Event("served", Top))
  /\ stack' = SubSeq(stack, 1, Len(stack) - 1)
  /\ UNCHANGED << routerVars, contexts, req, panicked, matchVars, goroutines >>

-----------------------------------------------------------------------------
(* The inputs the specifications draw from.                                *)

Root == << "/" >>
SlashA == << "/", "a" >>
SlashDot == << "/", "." >>
SlashParam == << "/", ":", "a" >>

SlashASlash == << "/", "a", "/" >>

MountMenu == {[path |-> Root, handler |-> "m1"], [path |-> SlashA, handler |-> "m2"],
              [path |-> SlashASlash, handler |-> "m3"]}

Request(method, path) == [ptr |-> "req", Method |-> method, Path |-> path]

\* One step of a Router that is set up and serves requests, with the inputs
\* drawn from the given sets.
Step(methods, templates, lists, maxRoutes, mounts, maxMounts, requests, bodies) ==
  \/ /\ TotalRoutes < maxRoutes
     /\ \E m \in methods, path \in templates, hs \in lists :
          registerRequestHandler(m, path, hs)
  \/ /\ Len(middleware) < maxMounts
     /\ \E mnt \in mounts : Mount(mnt.path, mnt.handler)
  \/ \E r \in requests, body \in bodies : ServeHTTP(r, body)
  \/ \E body \in bodies : HandlerNext(body)
  \/ HandlerError
  \/ HandlerStmt
  \/ HandlerReturn
  \/ ServeHTTPReturn

\* Routing: two methods, a literal and a parameterized template, one mount,
\* plain handlers.
Next ==
  Step({"GET", "POST"}, {SlashA, SlashParam}, {<< "h1" >>, << "h2" >>}, MaxRoutes,
       {[path |-> Root, handler |-> "m1"]}, 1,
       {Request("GET", SlashA), Request("GET", SlashDot), Request("TRACE", SlashA)},
       {"Writer", "Wrapper", "Failing"})

Spec == Init /\ [][Next]_vars

\* Chains: one route behind the mounts, handlers of every kind.
ChainNext ==
  Step({"GET"}, {SlashA}, {<< >>, << "h1" >>, << "h1", "h2" >>}, 1,
       MountMenu, MaxMounts,
       {Request("GET", SlashA), Request("GET", Root)}, Bodies)

ChainSpec == Init /\ [][ChainNext]_vars

\* Parameters: one route with one or two parameter segments (two names, one
\* name twice, a name between colons), requests that fill them differently.
ParamA == << ":", "a" >>
ParamDot == << ":", "." >>
TwoParams == ParamA \o << "/" >> \o ParamDot
SameParamTwice == ParamA \o << "/" >> \o ParamA
ParamInColons == << "/", ":", "a", ":" >>

ParamNext ==
  Step({"GET"}, {SlashParam, TwoParams, SameParamTwice, ParamInColons}, {<< "h1" >>}, 1,
       {[path |-> Root, handler |-> "m1"]}, 1,
       {Request("GET", SlashA), Request("GET", SlashDot),
        Request("GET", << "a", "/", "." >>), Request("GET", << ".", "/", "a" >>)},
       {"Writer", "Wrapper", "Failing"})

ParamSpec == Init /\ [][ParamNext]_vars

\* Mounted handlers: one route, literal or parameterized, behind mounts on
\* /, /a and /. made before or after it.
MountedNext ==
  Step({"GET"}, {SlashA, SlashParam}, {<< "h1" >>}, 1,
       {[path |-> Root, handler |-> "m1"], [path |-> SlashA, handler |-> "m2"],
        [path |-> SlashDot, handler |-> "m4"]}, MaxMounts,
       {Request("GET", SlashA), Request("GET", SlashDot)},
       {"Writer", "Wrapper", "Failing"})

MountedSpec == Init /\ [][MountedNext]_vars

\* Responders: a Router whose NotFoundHandler and ErrorHandler are set, reset
\* to nil and replaced while it serves.
CustomErrorHandler == "customErrorHandler"
CustomNotFoundHandler == "customNotFoundHandler"

ResponderNext ==
  \/ Step({"GET"}, {SlashA}, {<< "h1" >>}, 1, {[path |-> Root, handler |-> "m1"]}, 1,
          {Request("GET", SlashA), Request("GET", SlashDot)},
          {"Writer", "Wrapper", "Failing"})
  \/ \E h \in {Nil, DefaultErrorHandler, CustomErrorHandler} : SetErrorHandler(h)
  \/ \E h \in {Nil, CustomNotFoundHandler} : SetNotFoundHandler(h)

ResponderSpec == Init /\ [][ResponderNext]_vars

\* The cursor: chains of up to three handlers that call Next (twice too),
\* Error and the store operations.
CursorNext ==
  \/ Step({"GET"}, {SlashA}, {<< "h1" >>, << "h1", "h2" >>}, 1,
          {[path |-> Root, handler |-> "m1"]}, 1, {Request("GET", SlashA)},
          {"Writer", "Wrapper", "FailingOn", "NextTwice"})
  \/ \E call \in {"Set", "ForceSet", "Get", "Delete"}, val \in {Nil, "v1"} :
       HandlerStoreCall(call, "k1", val)

CursorSpec == Init /\ [][CursorNext]_vars

\* Handlers that panic, in chains of up to three handlers.
PanicNext ==
  \/ Step({"GET"}, {SlashA}, {<< "h1" >>, << "h1", "h2" >>}, 1,
          {[path |-> Root, handler |-> "m1"]}, 1,
          {Request("GET", SlashA), Request("GET", Root)},
          {"Writer", "Wrapper", "Failing", "Panicking"})
  \/ HandlerPanic

PanicSpec == Init /\ [][PanicNext]_vars

\* A handler that dispatches the request it serves once more.
NestedNext ==
  \/ Step({"GET"}, {SlashA}, {<< "h1" >>, << "h1", "h2" >>}, 1,
          {[path |-> Root, handler |-> "m1"]}, 1,
          {Request("GET", SlashA), Request("GET", Root)},
          {"Writer", "Wrapper", "Failing", "Redispatching"})
  \/ \E body \in {"Writer", "Wrapper", "Failing"} : HandlerServeHTTP(body)

NestedSpec == Init /\ [][NestedNext]_vars

\* Termination: handlers that return and call Next at most twice. The
\* goroutine that serves a request keeps running, so a step of the chain
\* that can be taken is taken eventually.
LiveBodies == {"Writer", "Wrapper", "Failing", "FailingOn", "NextTwice"}

LiveNext ==
  Step({"GET"}, {SlashA}, {<< >>, << "h1" >>, << "h1", "h2" >>}, 1,
       {[path |-> Root, handler |-> "m1"]}, 1,
       {Request("GET", SlashA), Request("GET", Root)}, LiveBodies)

Serving ==
  \/ \E body \in LiveBodies : HandlerNext(body)
  \/ HandlerError
  \/ HandlerStmt
  \/ HandlerReturn
  \/ ServeHTTPReturn

LiveSpec == Init /\ [][LiveNext]_vars /\ WF_vars(Serving)

-----------------------------------------------------------------------------
(* Matching on its own: every template and every path up to MaxLen.        *)

MatchInit ==
  /\ RouterInit
  /\ tmpl \in StringsUpTo(MaxLen)
  /\ cand \in StringsUpTo(MaxLen)
  /\ res = NoResult
  /\ goroutines = NoGoroutines

ApplyMatches ==
  /\ ~res.done
  /\ LET m == matches(makeRequestHandler(<< >>, tmpl, << >>), cand)
     IN  res' = [done |-> TRUE, isAMatch |-> m.isAMatch, withParams |-> m.withParams]
  /\ UNCHANGED << routerVars, serveVars, tmpl, cand, goroutines >>

MatchNext == ApplyMatches

MatchSpec == MatchInit /\ [][MatchNext]_vars

-----------------------------------------------------------------------------
(* Mounting on its own: a mount on every prefix and a route on every path  *)
(* up to MaxLen, in either order.                                          *)

MountNext ==
  \/ /\ Len(middleware) < 1
     /\ \E mountPath \in StringsUpTo(MaxLen) : Mount(mountPath, "m1")
  \/ /\ TotalRoutes < 1
     /\ \E path \in StringsUpTo(MaxLen) : registerRequestHandler("GET", path, << "h1" >>)

MountSpec == Init /\ [][MountNext]_vars

\* Registration: routes of every method and mounts, in any order; the empty
\* mount path does not compile.
RegisterNext ==
  \/ /\ TotalRoutes < MaxRoutes
     /\ \E m \in AllMethods, path \in {Root, SlashA} :
          registerRequestHandler(m, path, << "h1" >>)
  \/ /\ Len(middleware) < MaxMounts
     /\ \E mountPath \in {<< >>, Root, SlashA} : Mount(mountPath, "m1")

RegisterSpec == Init /\ [][RegisterNext]_vars

\* Templates that do not compile: an unclosed group in a literal segment.
SlashParen == << "/", "(" >>
ParamParen == << "/", ":", "(" >>

CompileNext ==
  Step({"GET"}, {SlashA, SlashParam, SlashParen, ParamParen}, {<< "h1" >>}, MaxRoutes,
       {[path |-> Root, handler |-> "m1"]}, 1,
       {Request("GET", SlashA), Request("GET", SlashParen), Request("GET", Root)},
       {"Writer", "Wrapper", "Failing"})

CompileSpec == Init /\ [][CompileNext]_vars

-----------------------------------------------------------------------------
(* The store on its own: calls of Set, ForceSet, Get and Delete on a new   *)
(* RequestContext. The log keeps each call with what it returned and the   *)
(* entries of the store before and after it.                               *)

StoreKeys == {"k1", "k2"}
StoreValues == {Nil, "v1", "v2"}

StoreCall(ev, key, val, out, ok, before, after) ==
  [ev |-> ev, key |-> key, val |-> val, out |-> out, ok |-> ok,
   made |-> before.store.made, before |-> before.store.m, after |-> after.store.m]

StoreInit ==
  /\ routes = [m \in AllMethods |-> << >>]
  /\ middleware = << >>
  /\ history = << >>
  /\ NotFoundHandler = Nil
  /\ ErrorHandler = DefaultErrorHandler
  /\ contexts = << NewRequestContext >>
  /\ requestContextStore = EmptyMap
  /\ req = NoReq
  /\ stack = << >>
  /\ log = << >>
  /\ panicked = FALSE
  /\ tmpl = << >> /\ cand = << >> /\ res = NoResult
  /\ goroutines = NoGoroutines

StoreFrame == UNCHANGED << routerVars, requestContextStore, req, stack, panicked, matchVars, goroutines >>

ContextSet(key, val) ==
  /\ Len(log) < MaxCalls
  /\ LET r == RequestContextSet(contexts[1], key, val)
     IN  /\ contexts' = [contexts EXCEPT ![1] = r.cntxt]
         /\ log' = Append(log, StoreCall("Set", key, val, Nil, r.ok, contexts[1], r.cntxt))
  /\ StoreFrame

ContextForceSet(key, val) ==
  /\ Len(log) < MaxCalls
  /\ LET r == RequestContextForceSet(contexts[1], key, val)
     IN  /\ contexts' = [contexts EXCEPT ![1] = r.cntxt]
         /\ log' = Append(log, StoreCall("ForceSet", key, val, Nil, TRUE, contexts[1], r.cntxt))
  /\ StoreFrame

ContextGet(key) ==
  /\ Len(log) < MaxCalls
  /\ LET r == RequestContextGet(contexts[1], key)
     IN  /\ contexts' = [contexts EXCEPT ![1] = r.cntxt]
         /\ log' = Append(log, StoreCall("Get", key, Nil, r.val, r.ok, contexts[1], r.cntxt))
  /\ StoreFrame

ContextDelete(key) ==
  /\ Len(log) < MaxCalls
  /\ LET r == RequestContextDelete(contexts[1], key)
     IN  /\ contexts' = [contexts EXCEPT ![1] = r.cntxt]
         /\ log' = Append(log, StoreCall("Delete", key, Nil, Nil, TRUE, contexts[1], r.cntxt))
  /\ StoreFrame

StoreNext ==
  \/ \E key \in StoreKeys, val \in StoreValues : ContextSet(key, val)
  \/ \E key \in StoreKeys, val \in StoreValues : ContextForceSet(key, val)
  \/ \E key \in StoreKeys : ContextGet(key)
  \/ \E key \in StoreKeys : ContextDelete(key)

StoreSpec == StoreInit /\ [][StoreNext]_vars

-----------------------------------------------------------------------------
(* Concurrent serving: net/http runs ServeHTTP for each request in a       *)
(* goroutine of its own. Every goroutine serves one GET /a through a       *)
(* Router with one route on /a whose handler calls Context(req).Next. The  *)
(* accesses to the package-level map take time (a begin step and an end    *)
(* step); nothing orders the accesses of different goroutines. An access   *)
(* that overlaps one of another goroutine, one of the two a write, is a    *)
(* data race: the Go run time may stop the process (fatal error:           *)
(* concurrent map writes), or go on with the map in whatever state the     *)
(* interleaved writes leave it in.                                         *)

MaxGoroutines == 2      \* requests served at the same time

Goroutines == 1..MaxGoroutines

RequestOf(g) == [ptr |-> << "req", g >>, Method |-> "GET", Path |-> SlashA]

Goroutine(pc, cntxt, got, raced) == [pc |-> pc, cntxt |-> cntxt, got |-> got, raced |-> raced]

\* A Router with Get("/a", h1) registered, and the goroutines about to
\* call ServeHTTP.
ConcInit ==
  /\ routes = [m \in AllMethods |->
                 IF m = "GET" THEN << makeRequestHandler(<< >>, SlashA, << "h1" >>) >>
                 ELSE << >>]
  /\ middleware = << >>
  /\ history = << [call |-> "register", method |-> "GET", path |-> SlashA,
                   handlers |-> << "h1" >>] >>
  /\ NotFoundHandler = Nil
  /\ ErrorHandler = DefaultErrorHandler
  /\ contexts = << >>
  /\ requestContextStore = EmptyMap
  /\ req = NoReq
  /\ stack = << >>
  /\ log = << >>
  /\ panicked = FALSE
  /\ tmpl = << >> /\ cand = << >> /\ res = NoResult
  /\ goroutines = [g \in Goroutines |-> Goroutine("ServeHTTP", 0, 0, FALSE)]

ConcFrame == UNCHANGED << routerVars, req, stack, matchVars >>

Reading(g) == goroutines[g].pc = "Context"
Writing(g) == goroutines[g].pc \in {"store", "delete"}

\* The goroutines whose access to the map overlaps an access that g begins,
\* one of the two being a write.
RacingWith(g, write) ==
  {o \in Goroutines \ {g} : Writing(o) \/ (write /\ Reading(o))}

\* g begins an access to the map and goes to pc.
Begin(g, pc, write) ==
  [o \in Goroutines |->
     IF o = g THEN [goroutines[g] EXCEPT !.pc = pc, !.raced = RacingWith(g, write) # {}]
     ELSE IF o \in RacingWith(g, write) THEN [goroutines[o] EXCEPT !.raced = TRUE]
     ELSE goroutines[o]]

\* What the map can hold after a write that raced.
AnyStore ==
  UNION {[S -> 1..Len(contexts)] : S \in SUBSET {RequestOf(g).ptr : g \in Goroutines}}

\* ServeHTTP up to the statement that stores the context: the scan of the
\* routes and new(RequestContext).
GoServeHTTP(g) ==
  /\ ~panicked
  /\ goroutines[g].pc = "ServeHTTP"
  /\ LET r == RequestOf(g)
         i == scan(methodRoutes(r.Method), 1, r.Path)
     IN  IF i # 0
         THEN /\ contexts' = Append(contexts, NewRequestContext)
              /\ goroutines' = [goroutines EXCEPT ![g].pc = "matched",
                                                  ![g].cntxt = Len(contexts) + 1]
              /\ log' = Append(log, [ev |-> "new", g |-> g, cntxt |-> Len(contexts) + 1,
                                     cur |-> NewRequestContext.currentHandler])
         ELSE /\ goroutines' = [goroutines EXCEPT ![g].pc = "done"]
              /\ log' = Append(log, [ev |-> "notFound", g |-> g, cntxt |-> 0, cur |-> 0])
              /\ UNCHANGED contexts
  /\ UNCHANGED << requestContextStore, panicked >>
  /\ ConcFrame

\* requestContextStore[req] = cntxt begins.
GoStoreBegin(g) ==
  /\ ~panicked
  /\ goroutines[g].pc = "matched"
  /\ goroutines' = Begin(g, "store", TRUE)
  /\ UNCHANGED << contexts, requestContextStore, log, panicked >>
  /\ ConcFrame

\* requestContextStore[req] = cntxt ends, and the fields of the context are
\* set.
GoStoreEnd(g) ==
  /\ ~panicked
  /\ goroutines[g].pc = "store"
  /\ LET r == RequestOf(g)
         c == goroutines[g].cntxt
         reqHandler == methodRoutes(r.Method)[scan(methodRoutes(r.Method), 1, r.Path)]
     IN  /\ contexts' = [contexts EXCEPT ![c] =
                           [@ EXCEPT !.Params = matches(reqHandler, r.Path).withParams,
                                     !.handlers = reqHandler.Handlers,
                                     !.errorHandler = ErrorHandler]]
         /\ \/ /\ requestContextStore' = MapPut(requestContextStore, r.ptr, c)
               /\ panicked' = FALSE
            \/ /\ goroutines[g].raced
               /\ requestContextStore' \in AnyStore
               /\ panicked' = FALSE
            \/ /\ goroutines[g].raced
               /\ requestContextStore' = requestContextStore
               /\ panicked' = TRUE
  /\ goroutines' = [goroutines EXCEPT ![g].pc = "Next", ![g].raced = FALSE]
  /\ UNCHANGED log
  /\ ConcFrame

\* cntxt.Next(res, req) in ServeHTTP, up to the first statement of the
\* handler it calls.
GoNext(g) ==
  /\ ~panicked
  /\ goroutines[g].pc = "Next"
  /\ LET c == goroutines[g].cntxt
         n == RequestContextNext(contexts[c])
     IN  /\ contexts' = [contexts EXCEPT ![c] = n.cntxt]
         /\ log' = Append(log, [ev |-> "next", g |-> g, cntxt |-> c,
                                cur |-> contexts[c].currentHandler])
         /\ goroutines' = [goroutines EXCEPT ![g].pc =
                             IF n.handler \in {"", NoopHandler} THEN "returned" ELSE "handler"]
  /\ UNCHANGED << requestContextStore, panicked >>
  /\ ConcFrame

\* The handler calls Context(req): the read of the map begins.
GoContextBegin(g) ==
  /\ ~panicked
  /\ goroutines[g].pc = "handler"
  /\ goroutines' = Begin(g, "Context", FALSE)
  /\ UNCHANGED << contexts, requestContextStore, log, panicked >>
  /\ ConcFrame

\* Context(req) returns.
GoContextEnd(g) ==
  /\ ~panicked
  /\ goroutines[g].pc = "Context"
  /\ \/ /\ goroutines' = [goroutines EXCEPT ![g].pc = "call", ![g].raced = FALSE,
                                            ![g].got = Context(RequestOf(g))]
        /\ panicked' = FALSE
     \/ /\ goroutines[g].raced
        /\ \E c \in 0..Len(contexts) :
             goroutines' = [goroutines EXCEPT ![g].pc = "call", ![g].raced = FALSE,
                                              ![g].got = c]
        /\ panicked' = FALSE
     \/ /\ goroutines[g].raced
        /\ goroutines' = [goroutines EXCEPT ![g].pc = "call", ![g].raced = FALSE]
        /\ panicked' = TRUE
  /\ UNCHANGED << contexts, requestContextStore, log >>
  /\ ConcFrame

\* The handler calls Next on the context it got, which calls the empty
\* handler; the handler returns, and so does the Next call of ServeHTTP.
\* Next on a nil context panics, and the panic ends ServeHTTP.
GoHandlerNext(g) ==
  /\ ~panicked
  /\ goroutines[g].pc = "call"
  /\ LET c == goroutines[g].got
     IN  IF c = 0
         THEN /\ goroutines' = [goroutines EXCEPT ![g].pc = "panic"]
              /\ log' = Append(log, [ev |-> "panic", g |-> g, cntxt |-> 0, cur |-> 0])
              /\ UNCHANGED contexts
         ELSE /\ contexts' = [contexts EXCEPT ![c] = RequestContextNext(contexts[c]).cntxt]
              /\ log' = Append(log, [ev |-> "next", g |-> g, cntxt |-> c,
                                     cur |-> contexts[c].currentHandler])
              /\ goroutines' = [goroutines EXCEPT ![g].pc = "returned"]
  /\ UNCHANGED << requestContextStore, panicked >>
  /\ ConcFrame

\* delete(requestContextStore, req) begins.
GoDeleteBegin(g) ==
  /\ ~panicked
  /\ goroutines[g].pc = "returned"
  /\ goroutines' = Begin(g, "delete", TRUE)
  /\ UNCHANGED << contexts, requestContextStore, log, panicked >>
  /\ ConcFrame

\* delete(requestContextStore, req) ends, and ServeHTTP returns.
GoDeleteEnd(g) ==
  /\ ~panicked
  /\ goroutines[g].pc = "delete"
  /\ \/ /\ requestContextStore' = MapDelete(requestContextStore, RequestOf(g).ptr)
        /\ panicked' = FALSE
     \/ /\ goroutines[g].raced
        /\ requestContextStore' \in AnyStore
        /\ panicked' = FALSE
     \/ /\ goroutines[g].raced
        /\ requestContextStore' = requestContextStore
        /\ panicked' = TRUE
  /\ goroutines' = [goroutines EXCEPT ![g].pc = "done", ![g].raced = FALSE]
  /\ UNCHANGED << contexts, log >>
  /\ ConcFrame

ConcNext ==
  \E g \in Goroutines :
    \/ GoServeHTTP(g)
    \/ GoStoreBegin(g)
    \/ GoStoreEnd(g)
    \/ GoNext(g)
    \/ GoContextBegin(g)
    \/ GoContextEnd(g)
    \/ GoHandlerNext(g)
    \/ GoDeleteBegin(g)
    \/ GoDeleteEnd(g)

ConcSpec == ConcInit /\ [][ConcNext]_vars

-----------------------------------------------------------------------------
(* Properties.                                                             *)

\* The entries registered under a method.
RoutesOf(method) == IF method \in AllMethods THEN routes[method] ELSE << >>

\* The entries of a bucket whose pattern matches the path.
Matching(bucket, path) == {k \in 1..Len(bucket) : matches(bucket[k], path).isAMatch}

Least(S) == CHOOSE k \in S : \A j \in S : k <= j

LogIdx(ev) == {k \in 1..Len(log) : log[k].ev = ev}

\* C1: ServeHTTP dispatches exactly the first entry, in registration order,
\* of the request's method whose pattern matches the request path: the
\* context gets that entry's handlers, there is one dispatch, and every
\* handler that starts is a handler of that entry; no later matching entry
\* is invoked.
C1_FirstMatchDispatched ==
  LET bucket == RoutesOf(req.Method)
      M == Matching(bucket, req.Path)
  IN  (req # NoReq /\ M # {}) =>
        LET first == Least(M)
        IN  /\ LogIdx("dispatch") = {1}
            /\ LogIdx("notFound") = {}
            /\ log[1].cur = first
            /\ contexts[1].handlers = bucket[first].Handlers
            /\ \A k \in LogIdx("enter") :
                 /\ log[k].pos \in 1..Len(bucket[first].Handlers)
                 /\ log[k].h = bucket[first].Handlers[log[k].pos]

\* Two entries with different handlers match the request, and the last
\* handler of the first one has run.
C1_Witness ==
  LET bucket == RoutesOf(req.Method)
      M == Matching(bucket, req.Path)
  IN  /\ req # NoReq
      /\ Cardinality(M) >= 2
      /\ \E j \in M : bucket[j].Handlers # bucket[Least(M)].Handlers
      /\ \E k \in LogIdx("exit") : log[k].pos = Len(bucket[Least(M)].Handlers)
      /\ stack = << >>

\* C2: when no entry of the request's method matches the path (also when
\* entries of other methods match it, or the method has no bucket), the
\* not-found responder runs exactly once, no handler runs, and the request
\* has no context while the responder runs or afterwards.
C2_UnmatchedIsNotFound ==
  (req # NoReq /\ Matching(RoutesOf(req.Method), req.Path) = {}) =>
    /\ Len(log) = 1
    /\ log[1].ev = "notFound"
    /\ ~log[1].flag
    /\ stack = << >>
    /\ contexts = << >>
    /\ req.ptr \notin DOMAIN requestContextStore

\* A GET request not found although a POST entry matches its path and a
\* handler is mounted.
C2_Witness ==
  /\ req # NoReq
  /\ req.Method = "GET"
  /\ Matching(RoutesOf("GET"), req.Path) = {}
  /\ Matching(RoutesOf("POST"), req.Path) # {}
  /\ \E k \in 1..Len(routes["POST"]) : Len(routes["POST"][k].Handlers) = 2
  /\ log # << >> /\ log[1].ev = "notFound"

\* The handlers started so far, in the order they started.
RECURSIVE EnteredIn(_)
EnteredIn(l) ==
  IF Len(l) = 0 THEN << >>
  ELSE (IF l[1].ev = "enter" THEN << l[1].h >> ELSE << >>) \o EnteredIn(Tail(l))

IsPrefix(s, t) == Len(s) <= Len(t) /\ SubSeq(t, 1, Len(s)) = s

\* ServeHTTP has returned for a matched request.
Served == log # << >> /\ log[Len(log)].ev = "served"

\* The place in history of the registration of entry i of a method.
RegistrationOf(method, i) ==
  CHOOSE k \in 1..Len(history) :
    /\ history[k].call = "register" /\ history[k].method = method
    /\ Cardinality({j \in 1..k : history[j].call = "register"
                                   /\ history[j].method = method}) = i

\* The handlers of the Mount calls among calls whose path is a prefix of path.
RECURSIVE MountedBefore(_, _)
MountedBefore(calls, path) ==
  IF Len(calls) = 0 THEN << >>
  ELSE (IF calls[1].call = "Mount" /\ HasPrefix(path, calls[1].path)
        THEN calls[1].handlers ELSE << >>) \o MountedBefore(Tail(calls), path)

\* The chain the registration call at place k of history asks for.
ExpectedChain(k) ==
  MountedBefore(SubSeq(history, 1, k - 1), history[k].path) \o history[k].handlers

\* C3: for a matched route, the handlers start in this order: the mounted
\* handlers whose prefix matches the route, in the order of the Mount calls,
\* then the handlers passed at registration, in that order; when every
\* handler that runs calls Next, all of them start.
C3_MountedThenOwnInOrder ==
  (req # NoReq /\ log # << >> /\ log[1].ev = "dispatch") =>
    LET chain == ExpectedChain(RegistrationOf(req.Method, log[1].cur))
    IN  /\ IsPrefix(EnteredIn(log), chain)
        /\ (Served /\ \A k \in LogIdx("enter") : log[k].body \in {"Wrapper", "NextTwice", "FailingLate"})
             => EnteredIn(log) = chain

\* Mounts on / and /a, a route on /a with two handlers, every handler a
\* wrapper: the root-mounted one, the /a-mounted one, then the route's own.
C3_Witness ==
  /\ Served
  /\ \A k \in LogIdx("enter") : log[k].body = "Wrapper"
  /\ EnteredIn(log) = << "m1", "m2", "h1", "h2" >>
  /\ middleware[1].MountPath = Root

\* C4: once Error has been called on the context of a request, no handler
\* of the chain starts any more, whichever handler calls Next and however
\* often, every later Next call finds the abort flag set, and the flag
\* stays set.
C4_NoHandlerAfterError ==
  \A e \in LogIdx("error") :
    /\ contexts[1].inError
    /\ \A k \in LogIdx("enter") : k < e
    /\ \A k \in LogIdx("next") : k > e => log[k].flag

\* A handler that wrapped the failing one calls Next again after the
\* failure, with handlers of the chain still to run.
C4_Witness ==
  \E e \in LogIdx("error"), k \in LogIdx("next") :
    /\ k > e
    /\ log[k].pos >= 1 /\ log[k].pos < log[e].pos
    /\ log[k].cur < Len(contexts[1].handlers)
    /\ Served

\* The Next calls the handler at position p has made before log index x.
NextCallsOf(p, x) == {k \in LogIdx("next") : k < x /\ log[k].pos = p}

StmtAt(p, pc) ==
  IF \E k \in LogIdx("stmt") : log[k].pos = p /\ log[k].pc = pc
  THEN CHOOSE k \in LogIdx("stmt") : log[k].pos = p /\ log[k].pc = pc
  ELSE 0

\* The statements a handler with this code runs when nothing unwinds it:
\* those before its first return.
StmtsOf(body) ==
  {pc \in 1..Len(Code(body)) :
     /\ Code(body)[pc].op = "Stmt"
     /\ \A q \in 1..(pc - 1) : Code(body)[q].op # "Return"}

\* At every step a handler makes after it started, every handler that
\* started in between has returned.
CalleesReturnFirst ==
  \A k, e \in LogIdx("enter") :
    k < e =>
      \A l \in (e + 1)..Len(log) :
        (log[l].pos = log[k].pos /\ log[l].ev # "errorHandler") =>
          \E x \in LogIdx("exit") : e < x /\ x < l /\ log[x].pos = log[e].pos

\* When ServeHTTP returns every handler that started has returned and has
\* run all its statements, whether or not a handler called Error.
EveryHandlerFinishes ==
  Served =>
    \A e \in LogIdx("enter") :
      /\ \E x \in LogIdx("exit") : x > e /\ log[x].pos = log[e].pos
      /\ \A pc \in StmtsOf(log[e].body) : StmtAt(log[e].pos, pc) > e

\* The wrappers e1, then e2, run their parts before Next in that order and
\* their parts after Next in the reverse order.
ReverseOrder(e1, e2) ==
  /\ StmtAt(log[e1].pos, 1) < StmtAt(log[e2].pos, 1)
  /\ StmtAt(log[e2].pos, 1) < StmtAt(log[e2].pos, 3)
  /\ StmtAt(log[e2].pos, 3) < StmtAt(log[e1].pos, 3)

C7_ErrorDoesNotUnwind ==
  \A e \in LogIdx("enter") :
    /\ \A f \in LogIdx("error") :
         log[f].pos = log[e].pos =>
           \A k \in LogIdx("enter") : log[k].pos > log[e].pos => k < f
    /\ log[e].body \in {"Failing", "FailingOn"} =>
         \A k \in LogIdx("enter") : log[k].pos <= log[e].pos
    /\ log[e].body = "Failing" => StmtAt(log[e].pos, 3) = 0
    /\ (log[e].body = "FailingOn" /\ \E x \in LogIdx("exit") : log[x].pos = log[e].pos) =>
         /\ StmtAt(log[e].pos, 2) > e
         /\ StmtAt(log[e].pos, 4) > StmtAt(log[e].pos, 2)
         /\ \E n \in LogIdx("next") :
              /\ log[n].pos = log[e].pos
              /\ StmtAt(log[e].pos, 2) < n /\ n < StmtAt(log[e].pos, 4)
              /\ log[n + 1].ev # "enter"

\* A handler that fails and goes on has returned, with a handler placed
\* after it in the chain.
C7_Witness ==
  \E e \in LogIdx("enter") :
    /\ log[e].body = "FailingOn"
    /\ log[e].pos < Len(contexts[1].handlers)
    /\ StmtAt(log[e].pos, 4) # 0
    /\ Served

\* C8: each call of Error sets the abort flag and then calls the error
\* responder once, with the message and the code passed; the responder is
\* called for every Error call and for nothing else.
C8_OneResponsePerError ==
  /\ \A k \in LogIdx("error") :
       /\ k < Len(log)
       /\ log[k + 1].ev = "errorHandler"
       /\ log[k + 1].err = log[k].err
       /\ log[k + 1].code = log[k].code
       /\ log[k + 1].flag
  /\ \A k \in LogIdx("errorHandler") : k > 1 /\ log[k - 1].ev = "error"

\* Error called three times for one request, by two handlers: three
\* responses.
C8_Witness ==
  /\ Cardinality(LogIdx("errorHandler")) = 3
  /\ \E j, k \in LogIdx("error") : log[j].pos # log[k].pos
  /\ \E j, k \in LogIdx("errorHandler") : log[j].err # log[k].err

\* C9: a Next call with the cursor at or past the end of the handler list
\* starts no handler and does not fault, for every chain length.
C9_NextPastTheEnd ==
  /\ ~panicked
  /\ \A k \in LogIdx("next") :
       log[k].cur >= Len(contexts[1].handlers) =>
         (k = Len(log) \/ log[k + 1].ev # "enter")

\* The last handler of a chain has called Next twice, the second time with
\* the cursor past the end.
C9_Witness ==
  /\ Served
  /\ contexts[1].handlers # << >>
  /\ \E j, k \in LogIdx("next") :
       /\ j < k
       /\ log[j].pos = Len(contexts[1].handlers) /\ log[k].pos = log[j].pos
       /\ log[j].cur = Len(contexts[1].handlers)
       /\ log[k].cur > Len(contexts[1].handlers)

\* A template has a parameter segment: a segment, between slashes, that
\* begins with ":".
HasParamSegment(t) ==
  \E i \in 1..Len(t) : t[i] = ":" /\ (i = 1 \/ t[i - 1] = "/")

\* C10: for a template without a parameter segment, matches(path) is true
\* exactly when path is the template string, and the parameter map it
\* returns is empty either way.
C10_LiteralTemplateMatchesItself ==
  (res.done /\ ~HasParamSegment(tmpl)) =>
    /\ res.isAMatch <=> (cand = tmpl)
    /\ DOMAIN res.withParams = {}

\* A literal template of several segments matched against itself.
C10_Witness ==
  /\ res.done
  /\ ~HasParamSegment(tmpl)
  /\ Len(Split(tmpl)) = 2 /\ Len(tmpl) = MaxLen
  /\ cand = tmpl
  /\ res.isAMatch

\* A segment of a template that stands for a parameter.
IsParamSegment(seg) == HasPrefix(seg, << ":" >>)

\* The path agrees with the template segment by segment: as many segments,
\* the literal ones equal, the ones at a parameter position not empty.
SegmentsAgree(t, p) ==
  LET ts == Split(t)
      ps == Split(p)
  IN  /\ Len(ps) = Len(ts)
      /\ \A i \in 1..Len(ts) :
           IF IsParamSegment(ts[i]) THEN ps[i] # << >> ELSE ps[i] = ts[i]

\* C11: for a template with at least one parameter segment, matches(path)
\* is true exactly when the path has as many segments as the template, every
\* literal segment of the template equals the path's segment at its
\* position, and every path segment at a parameter position is non-empty
\* (and, being a segment, holds no "/").
C11_ParamTemplateMatchesBySegments ==
  (res.done /\ HasParamSegment(tmpl)) => (res.isAMatch <=> SegmentsAgree(tmpl, cand))

\* The positions of the parameter segments of a template.
ParamPositions(t) == {i \in 1..Len(Split(t)) : IsParamSegment(Split(t)[i])}

\* The path has as many segments as the template and equals it at every
\* position other than k.
AgreesElsewhere(t, p, k) ==
  /\ Len(Split(p)) = Len(Split(t))
  /\ \A i \in 1..Len(Split(t)) : i # k => Split(p)[i] = Split(t)[i]

DispatchedPath == routes[req.Method][log[1].cur].Path

Dispatched == req # NoReq /\ log # << >> /\ log[1].ev = "dispatch"

\* The name the router gives the parameter segment: the segment without
\* the colons around it.
ParamName(seg) == Trim(seg)

MatchesPath(t, p) == matches(makeRequestHandler(<< >>, t, << >>), p).isAMatch

\* The path is a path the template matches, followed by "/" and anything
\* (nothing: a trailing slash; a token: a further segment).
ExtendsAMatch(t, p) ==
  \E k \in 1..Len(p) : p[k] = "/" /\ MatchesPath(t, SubSeq(p, 1, k - 1))

\* The path has an empty token at a parameter position of the template.
EmptyTokenAtParam(t, p) ==
  \E i \in ParamPositions(t) : i <= Len(Split(p)) /\ Split(p)[i] = << >>

\* C14: no trailing-slash leniency, for literal and parameterized templates:
\* a path made of a path the template matches, a "/" and possibly a further
\* segment does not match, and a path with an empty token at a parameter
\* position of the template (two consecutive slashes, or a final "/" there)
\* does not match.
C14_NoTrailingSlashLeniency ==
  res.done =>
    /\ ExtendsAMatch(tmpl, cand) => ~res.isAMatch
    /\ EmptyTokenAtParam(tmpl, cand) => ~res.isAMatch

\* The places in history of the registrations of the entries of a method.
Registrations(method) ==
  {k \in 1..Len(history) : history[k].call = "register" /\ history[k].method = method}

\* Handlers mounted by a Mount call made after the call at place k.
MountedAfter(k) ==
  {history[j].handlers[1] : j \in {i \in (k + 1)..Len(history) : history[i].call = "Mount"}}

\* Handlers mounted by a Mount call made before the call at place k.
MountedUpTo(k) ==
  {history[j].handlers[1] : j \in {i \in 1..(k - 1) : history[i].call = "Mount"}}

\* C15: a mount registered after a route does not apply to it. Whatever Mount
\* and registration calls were made, in whatever order, the chain of every
\* route entry is the one computed from the mounts that preceded its
\* registration (so no later Mount changed it), the context of a dispatched
\* request has that chain, and only handlers of earlier mounts and the
\* route's own handlers run.
C15_LaterMountDoesNotApply ==
  /\ \A m \in AllMethods : \A i \in 1..Len(routes[m]) :
       LET k == RegistrationOf(m, i)
       IN  /\ routes[m][i].Handlers = ExpectedChain(k)
           /\ \A j \in 1..(Len(routes[m][i].Handlers) - Len(history[k].handlers)) :
                routes[m][i].Handlers[j] \in MountedUpTo(k)
  /\ Dispatched =>
       LET k == RegistrationOf(req.Method, log[1].cur)
       IN  /\ contexts[1].handlers = ExpectedChain(k)
           /\ \A e \in LogIdx("enter") :
                log[e].h \in MountedUpTo(k) \cup {history[k].handlers[j] :
                                                     j \in 1..Len(history[k].handlers)}

\* A route on /a registered after a mount on / and before a mount on /a;
\* a request for /a served by wrappers all along: the first mount's handler
\* and the route's own ran, the later mount's did not.
C15_Witness ==
  /\ Served
  /\ LET k == RegistrationOf(req.Method, log[1].cur)
     IN  /\ MountedUpTo(k) = {"m1"}
         /\ MountedAfter(k) = {"m2"}
         /\ history[k].path = SlashA
         /\ EnteredIn(log) = << "m1" >> \o history[k].handlers
         /\ Len(history[k].handlers) = 2
  /\ \A e \in LogIdx("enter") : log[e].body = "Wrapper"

\* The Mount calls made before the call at place k of history.
MountCallsBefore(k) == {j \in 1..(k - 1) : history[j].call = "Mount"}

InChain(h, handlers) == \E j \in 1..Len(handlers) : handlers[j] = h

\* C16: mount matching is a plain string-prefix test. For every mount prefix
\* P and every route path T registered after it, the mount applies to T
\* (shouldMount(T) is true and the mounted handler is in the route's chain)
\* exactly when T starts with P as a string of characters, none of them
\* special.
C16_MountIsRawPrefix ==
  \A i \in 1..Len(routes["GET"]) :
    LET k == RegistrationOf("GET", i)
    IN  \A j \in MountCallsBefore(k) :
          /\ InChain(history[j].handlers[1], routes["GET"][i].Handlers)
               <=> HasPrefix(history[k].path, history[j].path)
          /\ \A n \in 1..Len(middleware) :
               shouldMount(middleware[n], history[k].path)
                 <=> HasPrefix(history[k].path, middleware[n].MountPath)

\* Every handler that has started so far hands over with Next.
AllWrappers == \A e \in LogIdx("enter") : log[e].body = "Wrapper"

HasEntered(h) == \E e \in LogIdx("enter") : log[e].h = h

C18_SetKeepsPresentKey ==
  \A n \in LogIdx("Set") :
    IF log[n].key \in DOMAIN log[n].before
    THEN ~log[n].ok /\ log[n].after = log[n].before
    ELSE log[n].ok /\ log[n].after = MapPut(log[n].before, log[n].key, log[n].val)

\* C19: ForceSet(key, v) always overwrites: the store after it is the store
\* before it with key bound to v (one entry more exactly when the key was
\* absent, the other entries unchanged), and a Get(key) that follows returns
\* (v, true).
C19_ForceSetOverwrites ==
  \A n \in LogIdx("ForceSet") :
    LET c == log[n]
    IN  /\ c.key \in DOMAIN c.after /\ c.after[c.key] = c.val
        /\ \A k \in DOMAIN c.before \ {c.key} : k \in DOMAIN c.after /\ c.after[k] = c.before[k]
        /\ DOMAIN c.after = DOMAIN c.before \cup {c.key}
        /\ Cardinality(DOMAIN c.after)
             = Cardinality(DOMAIN c.before) + (IF c.key \in DOMAIN c.before THEN 0 ELSE 1)
        /\ (n < Len(log) /\ log[n + 1].ev = "Get" /\ log[n + 1].key = c.key)
             => (log[n + 1].ok /\ log[n + 1].out = c.val)

\* ForceSet on a key that holds another value, and a Get of the key after
\* it.
C19_Witness ==
  /\ Len(log) = 3
  /\ log[2].ev = "ForceSet" /\ log[3].ev = "Get" /\ log[3].key = log[2].key
  /\ log[2].key \in DOMAIN log[2].before
  /\ log[2].before[log[2].key] \notin {Nil, log[2].val}
  /\ log[2].val # Nil
  /\ log[3].out = log[2].val

\* What the calls before call n last did to the key: the value stored, or
\* nothing (never stored, or deleted since).
RECURSIVE LastStored(_, _)
LastStored(n, key) ==
  IF n = 0 THEN [present |-> FALSE, val |-> Nil]
  ELSE LET c == log[n]
       IN  IF c.key = key /\ c.ev = "ForceSet" THEN [present |-> TRUE, val |-> c.val]
           ELSE IF c.key = key /\ c.ev = "Set" /\ c.ok THEN [present |-> TRUE, val |-> c.val]
           ELSE IF c.key = key /\ c.ev = "Delete" THEN [present |-> FALSE, val |-> Nil]
           ELSE LastStored(n - 1, key)

\* C20: Get(key) returns (value, true) with the value most recently stored
\* for a present key and (nil, false) for an absent one, also on a context
\* whose store has not been created yet, and leaves the stored keys and
\* their values as they were.
C20_GetReadsWithoutChange ==
  \A n \in LogIdx("Get") :
    LET c == log[n]
        last == LastStored(n - 1, c.key)
    IN  /\ c.ok = last.present
        /\ c.out = last.val
        /\ c.ok = (c.key \in DOMAIN c.before)
        /\ c.ok => c.out = c.before[c.key]
        /\ c.after = c.before
        /\ ~c.made => (~c.ok /\ c.out = Nil /\ c.after = EmptyMap)

\* A Get on the new context, before anything is stored, then a Get of a key
\* after it was stored.
C20_Witness ==
  /\ Len(log) = 3
  /\ log[1].ev = "Get" /\ ~log[1].made /\ ~log[1].ok
  /\ log[2].ev = "Set" /\ log[2].key = log[1].key /\ log[2].val = "v1"
  /\ log[3].ev = "Get" /\ log[3].key = log[1].key /\ log[3].ok /\ log[3].out = "v1"

\* C21: Delete(key) removes that key and nothing else, is a no-op on a key
\* the store does not hold (also the second of two Deletes, also on a store
\* not yet created), never faults, and a Set of the key right after it
\* returns true and stores the new value.
C21_DeleteRemovesOneKey ==
  /\ ~panicked
  /\ \A n \in LogIdx("Delete") :
       LET c == log[n]
       IN  /\ DOMAIN c.after = DOMAIN c.before \ {c.key}
           /\ \A k \in DOMAIN c.after : c.after[k] = c.before[k]
           /\ c.key \notin DOMAIN c.before => c.after = c.before
           /\ (n < Len(log) /\ log[n + 1].ev = "Set" /\ log[n + 1].key = c.key)
                => /\ log[n + 1].ok
                   /\ log[n + 1].after = MapPut(c.after, c.key, log[n + 1].val)

\* Both keys stored, one deleted while the other stays.
C21_Witness ==
  /\ Len(log) = 3
  /\ log[3].ev = "Delete"
  /\ DOMAIN log[3].before = StoreKeys
  /\ log[3].before[log[3].key] # Nil
  /\ DOMAIN log[3].after = StoreKeys \ {log[3].key}

\* C22: for a matched request, from the invocation of the first handler
\* until ServeHTTP returns, Context(req) is not nil and is the one context
\* created for this dispatch, with this request's Params and the route's
\* chain; every handler that calls Next finds it (none faults on a nil
\* context), and no other context exists for the request.
C22_ContextDuringTheChain ==
  (Dispatched /\ ~Served) =>
    /\ stack # << >>
    /\ ~panicked
    /\ Context(req) = 1
    /\ Len(contexts) = 1
    /\ DOMAIN requestContextStore = {req.ptr}
    /\ contexts[1].Params = matches(routes[req.Method][log[1].cur], req.Path).withParams
    /\ contexts[1].handlers = routes[req.Method][log[1].cur].Handlers
    /\ \A k \in LogIdx("next") : log[k].cur = Cardinality({j \in LogIdx("next") : j < k /\ ~log[j].flag})

\* The third handler of a chain is running, started by the second.
C22_Witness ==
  /\ Dispatched /\ ~Served
  /\ Len(stack) = 4
  /\ Top.pos = 3
  /\ Context(req) = 1
  /\ contexts[1].currentHandler = 3

C24_NoConcurrentMapAccess ==
  \A g \in Goroutines, o \in Goroutines :
    (g # o /\ Writing(g)) => ~(Writing(o) \/ Reading(o))

\* The context ServeHTTP created in goroutine g.
Owns(g, c) == goroutines[g].cntxt = c

\* C25: every matched request gets a context of its own, new (cursor 0, not
\* aborted, empty store) when ServeHTTP creates it, and under every
\* interleaving of the requests a Next call made for one request acts on
\* that request's context only: the cursor of a request's context counts the
\* Next calls made for that request, whatever the other requests do.
C25_ContextsAreIsolated ==
  /\ \A g \in Goroutines, o \in Goroutines :
       (g # o /\ goroutines[g].cntxt # 0) => goroutines[g].cntxt # goroutines[o].cntxt
  /\ \A g \in Goroutines :
       goroutines[g].pc \in {"matched", "store"}
         => contexts[goroutines[g].cntxt] = NewRequestContext
  /\ \A k \in LogIdx("next") : Owns(log[k].g, log[k].cntxt)
  /\ \A g \in Goroutines :
       goroutines[g].cntxt # 0 =>
         /\ contexts[goroutines[g].cntxt].currentHandler
              = Cardinality({k \in LogIdx("next") : log[k].g = g})
         /\ ~contexts[goroutines[g].cntxt].inError
         /\ contexts[goroutines[g].cntxt].store = NilStore

\* ---------------------------------------------------------------------
\* Responders of the Router (ResponderSpec).

\* The responder the Router had when the request being served was
\* dispatched.
ResponderAtDispatch == log[1].h

\* C26: when the Router's ErrorHandler is nil at the dispatch of a request,
\* every call of Error by a handler of that request is answered by the
\* default responder, with the message and the code passed, and the request
\* does not fault.
C26_NilErrorHandlerFallsBack ==
  (Len(log) > 0 /\ log[1].ev = "dispatch" /\ ResponderAtDispatch = Nil) =>
    /\ ~panicked
    /\ \A k \in LogIdx("error") :
         /\ k < Len(log)
         /\ log[k + 1].ev = "errorHandler"
         /\ log[k + 1].h = DefaultErrorHandler
         /\ log[k + 1].err = log[k].err
         /\ log[k + 1].code = log[k].code

\* C27: a request that no entry of its method's bucket matches is answered
\* by exactly one not-found responder: the Router's NotFoundHandler when it
\* is set, http.NotFound when it is nil.
C27_OneNotFoundResponder ==
  [][(/\ Idle
      /\ UNCHANGED routerVars
      /\ req' # NoReq
      /\ Matching(RoutesOf(req'.Method), req'.Path) = {})
     => /\ Len(log') = 1
        /\ log'[1].ev = "notFound"
        /\ log'[1].h = IF NotFoundHandler = Nil THEN "http.NotFound"
                       ELSE NotFoundHandler
        /\ stack' = << >>
        /\ ~panicked']_vars

\* An unmatched request answered by the custom NotFoundHandler, on a Router
\* that has a route.
C27_Witness ==
  /\ req # NoReq
  /\ TotalRoutes > 0
  /\ Matching(RoutesOf(req.Method), req.Path) = {}
  /\ Len(log) = 1
  /\ log[1].ev = "notFound"
  /\ log[1].h = CustomNotFoundHandler
  /\ NotFoundHandler = CustomNotFoundHandler

\* C28: every call of Error by a handler of a request is answered by the
\* responder the Router had when that request was dispatched, whatever
\* Router.ErrorHandler has been set to before the request or since.
C28_ResponderOfTheDispatch ==
  \A k \in LogIdx("errorHandler") :
    /\ log[1].ev = "dispatch"
    /\ log[k].h = ResponderAtDispatch
    /\ log[k].h = contexts[1].errorHandler

\* A request dispatched after the custom responder replaced the default one,
\* whose Error call was answered by the custom responder although the
\* Router's ErrorHandler was replaced again while its chain was running.
C28_Witness ==
  /\ stack # << >>
  /\ Len(log) > 1
  /\ log[1].ev = "dispatch"
  /\ ResponderAtDispatch = CustomErrorHandler
  /\ log[Len(log)].ev = "errorHandler"
  /\ log[Len(log)].h = CustomErrorHandler
  /\ ErrorHandler = DefaultErrorHandler

\* ---------------------------------------------------------------------
\* Registration (RegisterSpec).

\* s is t with one entry more at its end.
IsAppendOf(s, t) == Len(s) = Len(t) + 1 /\ SubSeq(s, 1, Len(t)) = t

\* The registration call of a step that makes one.
Registered == history'[Len(history')]

\* C29: registration is append-only. A new Router has no routes and no
\* mounts. A Get/Post/Put/Delete/Patch/Head/Options call adds one entry
\* with the given path at the end of its method's bucket and leaves the
\* entries before it, the other buckets and the mount list as they were; a
\* Mount call adds one entry with the given mount path and handler at the
\* end of the mount list and leaves the entries before it and the buckets
\* as they were. A call whose pattern does not compile panics and adds
\* nothing.
C29_RegistrationAppendsOne ==
  /\ [](history = << >> => (TotalRoutes = 0 /\ middleware = << >>))
  /\ [][history' # history =>
          /\ IsAppendOf(history', history)
          /\ Registered.call = "register" =>
               /\ middleware' = middleware
               /\ \A m \in AllMethods \ {Registered.method} : routes'[m] = routes[m]
               /\ IF panicked' THEN routes' = routes
                  ELSE LET bucket == routes'[Registered.method]
                       IN  /\ IsAppendOf(bucket, routes[Registered.method])
                           /\ bucket[Len(bucket)].Path = Registered.path
          /\ Registered.call = "Mount" =>
               /\ routes' = routes
               /\ IF panicked' THEN middleware' = middleware
                  ELSE /\ IsAppendOf(middleware', middleware)
                       /\ middleware'[Len(middleware')].MountPath = Registered.path
                       /\ << middleware'[Len(middleware')].Handle >> = Registered.handlers
     ]_vars

\* Two routes with different paths in one bucket and two mounts with
\* different mount paths, the second route registered last.
C29_Witness ==
  /\ \E m \in AllMethods :
       /\ Len(routes[m]) = 2
       /\ routes[m][1].Path # routes[m][2].Path
       /\ Len(history) = 4
       /\ history[4] = [call |-> "register", method |-> m,
                        path |-> routes[m][2].Path, handlers |-> << "h1" >>]
  /\ Len(middleware) = 2
  /\ middleware[1].MountPath # middleware[2].MountPath

\* ---------------------------------------------------------------------
\* The cursor (CursorSpec).

\* The step is a call of Next by ServeHTTP or by a handler.
IsNextCall == Len(log') > Len(log) /\ log'[Len(log) + 1].ev = "next"

\* The handler a Next call started, if it started one.
StartedBy(k) == IF k < Len(log) /\ log[k + 1].ev = "enter" THEN {log[k + 1]} ELSE {}

\* C30: the cursor of a context never decreases. A Next call on a context
\* that is not aborted adds one to it before the handler runs, so the
\* handler it starts is the one after the caller, never the caller; a Next
\* call on an aborted context, Error and the store operations leave it as
\* it is.
C30_CursorAdvancesByNextOnly ==
  /\ [][(stack # << >> /\ contexts # << >> /\ contexts' # << >>) =>
          LET old == contexts[1].currentHandler
              new == contexts'[1].currentHandler
          IN  /\ new >= old
              /\ IF IsNextCall /\ ~contexts[1].inError
                 THEN new = old + 1
                 ELSE new = old
       ]_vars
  /\ [](\A k \in LogIdx("next") :
          /\ log[k].cur >= log[k].pos
          /\ \A e \in StartedBy(k) :
               /\ ~log[k].flag
               /\ e.pos = log[k].cur + 1
               /\ e.pos > log[k].pos
               /\ e.h = contexts[1].handlers[e.pos])
  /\ [](\A k \in LogIdx("next") :
          (k = 1 \/ log[k - 1].ev = "dispatch") => log[k].cur = 0)

\* An aborted request whose handler went on to call Next, with a value in
\* the store, the cursor still where the last Next call on the context
\* before the abort left it.
C30_Witness ==
  /\ contexts # << >>
  /\ contexts[1].inError
  /\ Len(contexts[1].handlers) = 3
  /\ contexts[1].currentHandler = 2
  /\ "k1" \in DOMAIN contexts[1].store.m
  /\ \E k \in LogIdx("next") : log[k].flag /\ log[k].cur = 2 /\ log[k].pos = 2
  /\ \E j, k \in LogIdx("next") : j # k /\ log[j].pos = 1 /\ log[k].pos = 1

\* ---------------------------------------------------------------------
\* Outcomes of a dispatch.

\* The places in the log where the event ev was logged by ServeHTTP itself.
RouterIdx(ev) == {k \in LogIdx(ev) : log[k].pos = 0}

\* C31: within one request the handlers are started at strictly increasing
\* positions of the chain, each the handler the chain holds at its position,
\* so no handler of the chain is started twice and none is started again
\* after a later one; ServeHTTP itself calls Next exactly once for a
\* matched request.
C31_EachHandlerAtMostOnce ==
  /\ \A j, k \in LogIdx("enter") : j < k => log[j].pos < log[k].pos
  /\ \A k \in LogIdx("enter") :
       /\ log[k].pos \in 1..Len(contexts[1].handlers)
       /\ log[k].h = contexts[1].handlers[log[k].pos]
  /\ (log # << >> /\ log[1].ev = "dispatch") =>
       (Cardinality(RouterIdx("next")) = 1 /\ RouterIdx("next") = {2})

\* A served request whose chain of three ran in full, two of its handlers
\* having called Next twice.
C31_Witness ==
  /\ Served
  /\ Len(contexts[1].handlers) = 3
  /\ Cardinality(LogIdx("enter")) = 3
  /\ \E i, j, k, l \in LogIdx("next") :
       /\ i < j /\ log[i].pos = 2 /\ log[j].pos = 2
       /\ k < l /\ log[k].pos = 3 /\ log[l].pos = 3

\* The request has a matching entry in its method's bucket.
Matched == req # NoReq /\ Matching(RoutesOf(req.Method), req.Path) # {}

\* C32: a dispatch has exactly one of two outcomes. When an entry of the
\* request's method matches, the chain is started (ServeHTTP calls Next,
\* also on an empty handler list) and the not-found responder is not
\* invoked, whatever the handlers write; when none matches, the not-found
\* responder runs and nothing else does. ServeHTTP returns in one of the two
\* terminal states.
C32_DispatchedOrNotFound ==
  req # NoReq =>
    /\ log # << >>
    /\ IF Matched
       THEN /\ log[1].ev = "dispatch"
            /\ Len(log) >= 2 /\ log[2].ev = "next" /\ log[2].pos = 0
            /\ LogIdx("notFound") = {}
            /\ Idle => Served
       ELSE /\ LogIdx("notFound") = {1}
            /\ Len(log) = 1
            /\ Idle
    /\ ~(Served /\ log[1].ev = "notFound")

\* A request matched by an entry with an empty handler list, served: the
\* chain was started, ran no handler and wrote nothing.
C32_Witness ==
  /\ Matched
  /\ Served
  /\ contexts[1].handlers = << >>
  /\ Len(log) = 3
  /\ LogIdx("notFound") = {}

\* C33: serving does not change the Router. Every step that is not a
\* registration (a ServeHTTP call, matched or not, a Next call, an Error
\* call, a store operation, a handler's statement or return) leaves the
\* buckets with their entries, the mount list, NotFoundHandler and
\* ErrorHandler as they were, and the chain of a dispatched request is the
\* handler list its entry holds.
C33_ServingLeavesTheRouter ==
  /\ [][history' = history =>
          UNCHANGED << routes, middleware, NotFoundHandler, ErrorHandler >>]_vars
  /\ [](Matched =>
          /\ log[1].ev = "dispatch"
          /\ contexts[1].handlers = RoutesOf(req.Method)[log[1].cur].Handlers)

\* A served request with a mounted handler in its chain, aborted by Error,
\* with a value in its store.
C33_Witness ==
  /\ Matched
  /\ Served
  /\ middleware # << >>
  /\ Len(contexts[1].handlers) = 3
  /\ contexts[1].inError
  /\ "k1" \in DOMAIN contexts[1].store.m
  /\ routes["GET"][1].Handlers = << "m1", "h1", "h2" >>

\* The mount list as it was when registration call k was made.
MountsBefore(k) == SubSeq(middleware, 1, Cardinality(MountCallsBefore(k)))

\* C34: the chain a request runs is the one its entry got at registration:
\* the handlers of the mounts registered before the entry whose matcher
\* accepts the entry's template, in mount order, then the entry's own
\* handlers. The request path plays no part in it.
C34_ChainResolvedAtRegistration ==
  Dispatched =>
    LET k == RegistrationOf(req.Method, log[1].cur)
        entry == RoutesOf(req.Method)[log[1].cur]
    IN  /\ entry.Path = history[k].path
        /\ entry.Handlers = mountedOf(MountsBefore(k), entry.Path) \o history[k].handlers
        /\ contexts[1].handlers = entry.Handlers
        /\ \A e \in {log[i] : i \in LogIdx("enter")} : e.h = entry.Handlers[e.pos]

\* A route on /:a registered after mounts on / and on /a, serving /a: the
\* mount on /a accepts the request path and not the template, and its
\* handler is not in the chain that ran.
C34_Witness ==
  /\ Served /\ AllWrappers
  /\ req.Path = SlashA
  /\ RoutesOf(req.Method)[log[1].cur].Path = SlashParam
  /\ {middleware[i].MountPath : i \in 1..Len(middleware)} = {Root, SlashA}
  /\ Cardinality(MountCallsBefore(RegistrationOf(req.Method, log[1].cur))) = 2
  /\ \E i \in 1..Len(middleware) :
       /\ middleware[i].MountPath = SlashA
       /\ shouldMount(middleware[i], req.Path)
       /\ ~shouldMount(middleware[i], SlashParam)
  /\ EnteredIn(log) = << "m1", "h1" >>

\* ---------------------------------------------------------------------
\* Compiling templates.

\* The segments that begin with the parameter marker, each without that
\* marker, left to right.
RECURSIVE MarkerStripped(_)
MarkerStripped(parts) ==
  IF Len(parts) = 0 THEN << >>
  ELSE (IF HasPrefix(parts[1], << ":" >>) THEN << Tail(parts[1]) >> ELSE << >>)
       \o MarkerStripped(Tail(parts))

\* C35: the parameter names of a compiled template are its segments that
\* begin with ":", left to right, each with the leading marker stripped and
\* nothing else removed, and the entry is matched by pattern exactly when
\* there is such a segment.
C35_NamesAreSegmentsWithoutMarker ==
  LET entry == makeRequestHandler(<< >>, tmpl, << >>)
  IN  /\ buildRegexpFor(tmpl).withParamNames = MarkerStripped(Split(tmpl))
      /\ entry.ParamNames = buildRegexpFor(tmpl).withParamNames
      /\ entry.Tokenized = (MarkerStripped(Split(tmpl)) # << >>)

\* The pattern built for a template compiles.
Compiles(path) == Compile(buildRegexpFor(path).regexpPath).ok

\* The registration calls whose template compiles.
Accepted == {k \in 1..Len(history) : history[k].call = "register" /\ Compiles(history[k].path)}

\* The registration calls whose template does not compile.
Rejected == {k \in 1..Len(history) : history[k].call = "register" /\ ~Compiles(history[k].path)}

C37_EntryRemovedOnEveryExit ==
  stack = << >> => requestContextStore = EmptyMap

\* The ServeHTTP calls in progress.
ServeDepth == Cardinality({k \in 1..Len(stack) : stack[k].fn = "ServeHTTP"})

\* C38: while a handler of the chain ServeHTTP started first runs, before
\* and after a dispatch of the same request made by a handler of that chain,
\* Context(req) is that chain's context.
C38_OuterContextAfterInnerDispatch ==
  (stack # << >> /\ ServeDepth = 1 /\ Top.fn = "handler") => Context(req) = 1

\* ---------------------------------------------------------------------
\* Termination (LiveSpec).

\* C39: with handlers that return and call Next finitely often, every
\* ServeHTTP call returns: a chain in progress leads to a state where
\* ServeHTTP has returned and the request has no context; the entry
\* dispatched is one of the bucket, and the chain starts at most as many
\* handlers as it holds.
C39_ServeHTTPReturns ==
  /\ (stack # << >>) ~> (Idle /\ Served /\ Context(req) = 0)
  /\ [](Dispatched =>
          /\ log[1].cur \in 1..Len(RoutesOf(req.Method))
          /\ Cardinality(LogIdx("enter")) <= Len(contexts[1].handlers))
  /\ [][(Idle /\ req' # NoReq /\ req' # req) => (stack' # << >> \/ Idle')]_vars

\* A request served by a chain of three handlers that all ran, two of them
\* calling Next twice.
C39_Witness ==
  /\ Idle /\ Served /\ Context(req) = 0
  /\ Len(contexts[1].handlers) = 3
  /\ Cardinality(LogIdx("enter")) = 3
  /\ Cardinality(LogIdx("next")) >= 5

====
